---- MODULE Spec2Model ----
(***************************************************************************)
(* A model of boost::arena::basic_obstack (src/obstack.hpp, obstack.cpp):  *)
(* a fixed byte buffer with a top-of-stack pointer, a chain of chunk       *)
(* headers (prev, xor-obfuscated destructor pointer, checksum) and typed   *)
(* allocation, array allocation, deallocation and full reset.              *)
(*                                                                         *)
(* Addresses are natural numbers, NULL is 0.  The sizes and alignments are *)
(* those of an LP64 x86-64 build: pointers and size_t are 8 bytes,         *)
(* max_align_t is long double (size 16, alignment 16).  The model keeps    *)
(* pointers PtrBits wide so that the xor arithmetic of ptr_sec is the      *)
(* bitwise one.                                                            *)
(***************************************************************************)
EXTENDS Integers, Sequences, FiniteSets, TLC

(* ------------------------------------------------------------------ *)
(* Program constants                                                  *)
(* ------------------------------------------------------------------ *)

NULL == 0

\* alignment_of<max_align_t>::value
MAX_ALIGN == 16

\* sizeof(alloc_value_type), the allocator's element type max_align_t
SizeofMaxAlignT == 16

\* sizeof(chunk_header): prev, dtor, checksum
SizeofChunkHeader == 24

\* alignment_of<chunk_header>::value
AlignofChunkHeader == 8

\* addresses of the two marker functions of obstack.cpp
free_marker_dtor == 1

array_of_primitives_dtor == 2

\* addresses of the raw allocator's allocate and deallocate
allocator_allocate == 6

allocator_deallocate == 7

(* ------------------------------------------------------------------ *)
(* Bounds of the model                                                *)
(* ------------------------------------------------------------------ *)

\* width of a pointer / size_t in the model
PtrBits == 10

\* the largest capacity (in bytes) an arena is constructed with
MaxCapacity == 111

\* the largest caller-supplied buffer, in elements of max_align_t
MaxBufferElems == 2

\* the largest element count passed to alloc_array
MaxElems == 1

(* ------------------------------------------------------------------ *)
(* Types that are allocated                                           *)
(* ------------------------------------------------------------------ *)

\* T: sizeof(T), alignment_of<T>, and the address of call_dtor<T>
Types ==
    { [name |-> "char",        size |-> 1,  align |-> 1,  fn |-> 3],
      [name |-> "double",      size |-> 8,  align |-> 8,  fn |-> 4],
      [name |-> "long double", size |-> 16, align |-> 16, fn |-> 5] }

\* POD element types used with alloc_array
PodTypes == { T \in Types : T.name \in {"char", "double"} }

\* the address of the instantiation call_dtor<T>
call_dtor(T) == T.fn

\* capacities the arena is constructed with
Capacities == { MaxCapacity - 47, MaxCapacity }

\* sizeof(buffer) of the caller-supplied buffers, in bytes
BufferSizes == { MaxBufferElems * SizeofMaxAlignT }

\* addresses the raw allocator may return (max-aligned, non-null)
Bases == { MAX_ALIGN }

\* values init_cookie() may return
Cookies == { 90, 165 }

\* the two cookies are two successive draws
CookiePairs == { c \in Cookies \X Cookies : c[1] # c[2] }

VARIABLES
    checksum_cookie,  \* ptr_sec::_checksum_cookie
    xor_cookie,       \* ptr_sec::_xor_cookie
    mem,              \* memory_holder::memory
    memory_count,     \* memory_holder::memory_count (elements of max_align_t)
    tos,              \* basic_obstack::tos
    top_chunk,        \* basic_obstack::top_chunk
    heads,            \* the chunk headers stored in the buffer, by address
    crashed,          \* a call through a null function pointer happened
    destroyed,        \* ~basic_obstack has run
    ctor,             \* history: the constructor used and its size argument
    objs,             \* history: the chunks on the arena and those the last
                      \* operation reclaimed, in allocation order
    calls,            \* history: the destructor and allocator calls of the
                      \* last operation, in the order they were made
    constructed,      \* history: the constructor calls of the last operation
    last,             \* history: the last operation, its argument and result
    fwd,              \* history: the constructor arguments of the last
                      \* alloc<T>(a1..ak) and the overloads they went through
    at                \* history: tos, top_chunk and the headers at the moment
                      \* of each destructor call of the last operation

vars == << checksum_cookie, xor_cookie, mem, memory_count, tos, top_chunk,
           heads, crashed, destroyed, ctor, objs, calls, constructed, last,
           fwd, at >>

(* ------------------------------------------------------------------ *)
(* ptr_sec                                                            *)
(* ------------------------------------------------------------------ *)

RECURSIVE XorBits(_, _, _)
XorBits(a, b, n) ==
    IF n = 0 THEN 0
    ELSE (((a % 2) + (b % 2)) % 2) + 2 * XorBits(a \div 2, b \div 2, n - 1)

\* the number of values of a pointer or a size_t
WordSize == 2 ^ PtrBits

\* a ^ b on the low byte, tabulated
XorTable == [a \in 0 .. 255 |-> [b \in 0 .. 255 |-> XorBits(a, b, 8)]]

\* a ^ b on size_t
Xor(a, b) ==
    XorTable[a % 256][b % 256]
        + 256 * XorBits(a \div 256, b \div 256, PtrBits - 8)

\* mutant: the cookie is added instead of xored
xor_ptr_added(p) == (p + xor_cookie) % WordSize

xor_ptr(p) == Xor(p, xor_cookie)

\* mutant: the checksum is made without the cookie
make_checksum_unsalted(prev, xored_dtor) == Xor(xored_dtor, prev)

make_checksum(prev, xored_dtor) == Xor(Xor(xored_dtor, prev), checksum_cookie)

\* mutant: the checksum is compared without the cookie
checksum_ok_unsalted(prev, xored_dtor, checksum) == checksum = Xor(xored_dtor, prev)

checksum_ok(prev, xored_dtor, checksum) == checksum = make_checksum(prev, xored_dtor)

free_marker_dtor_xor == xor_ptr(free_marker_dtor)

array_of_primitives_dtor_xor == xor_ptr(array_of_primitives_dtor)

xor_fptr(fptr) == xor_ptr(fptr)

(* ------------------------------------------------------------------ *)
(* memory_holder / octet_holder                                       *)
(* ------------------------------------------------------------------ *)

\* mutant: the element count is rounded down
to_alloc_capacity_floor(capacity_in_bytes) ==
    capacity_in_bytes \div SizeofMaxAlignT

to_alloc_capacity(capacity_in_bytes) ==
    (capacity_in_bytes \div SizeofMaxAlignT)
        + (IF (capacity_in_bytes % SizeofMaxAlignT) # 0 THEN 1 ELSE 0)

end_of_mem == mem + memory_count * SizeofMaxAlignT

capacity == memory_count * SizeofMaxAlignT

(* ------------------------------------------------------------------ *)
(* Layout arithmetic                                                  *)
(* ------------------------------------------------------------------ *)

\* mutant: the size of the header is not rounded up
max_aligned_sizeof_unrounded(s) == s

max_aligned_sizeof(s) ==
    IF (s % MAX_ALIGN) # 0 THEN s + (MAX_ALIGN - (s % MAX_ALIGN)) ELSE s

\* max_aligned_sizeof<chunk_header>::value
HeaderStride == max_aligned_sizeof(SizeofChunkHeader)

alignment(T) ==
    IF T.align > AlignofChunkHeader THEN T.align ELSE AlignofChunkHeader

\* mutant: the remainder itself instead of the distance to the next multiple
offset_to_alignment_remainder(p, align_to) == p % align_to

offset_to_alignment(p, align_to) ==
    IF (p % align_to) # 0 THEN align_to - (p % align_to) ELSE 0

(* ------------------------------------------------------------------ *)
(* The arena during an operation: a record A with the fields          *)
(*   tos, top_chunk        : the members of basic_obstack             *)
(*   heads                 : the chunk headers stored in [mem, tos),  *)
(*                           by address; the bytes at and above tos   *)
(*                           are unspecified and not kept             *)
(*   calls                 : the calls made through dtor pointers     *)
(*   constructed           : the placement-new constructor calls      *)
(*   crashed               : a null function pointer was called       *)
(*   ret                   : the value the operation returns          *)
(* ------------------------------------------------------------------ *)

\* mutant: the overhead bound leaves out the alignment padding
max_overhead_header_only(num_elements) == HeaderStride * num_elements

max_overhead(num_elements) == (HeaderStride + MAX_ALIGN) * num_elements

Arena ==
    [tos |-> tos, top_chunk |-> top_chunk, heads |-> heads,
     calls |-> << >>, constructed |-> << >>, crashed |-> crashed, ret |-> NULL,
     at |-> << >>]

size(A) == A.tos - mem

to_chunk_header(obj) == obj - HeaderStride

to_object(chead) == chead + HeaderStride

top_object(A) == A.top_chunk + HeaderStride

\* mutant: the object's address is compared with the header's
is_top_unconverted(A, obj) == obj = A.top_chunk

is_top(A, obj) == to_chunk_header(obj) = A.top_chunk

\* mutant: the capacity check forgets the padding
mem_available_nopadding(A, T) ==
    (A.tos + HeaderStride + T.size) < end_of_mem

mem_available(A, T) ==
    LET padding == offset_to_alignment(A.tos, alignment(T))
    IN  (A.tos + padding + HeaderStride + T.size) < end_of_mem

\* sizeof(T)*num_elements is a product of size_t and wraps; the pointer sum
\* overflows only with undefined behaviour, of which wraps is the outcome:
\* the sum wrapped around, or the comparison came out as for the true sum
mem_available_array(A, T, num_elements, wraps) ==
    LET padding == offset_to_alignment(A.tos, alignment(T))
        sum     == A.tos + padding + HeaderStride
                       + ((T.size * num_elements) % WordSize)
    IN  IF sum < WordSize
        THEN sum < end_of_mem
        ELSE wraps /\ (sum % WordSize) < end_of_mem

\* mutant: tos advances by the header only, not by the payload
allocate_header_only(A, align_to, sz, xored_dtor) ==
    LET chead == A.tos + offset_to_alignment(A.tos, align_to)
        hd    == [prev     |-> A.top_chunk,
                  dtor     |-> xored_dtor,
                  checksum |-> make_checksum(A.top_chunk, xored_dtor)]
    IN  [A EXCEPT
            !.heads = [a \in (DOMAIN A.heads) \cup {chead} |->
                          IF a = chead THEN hd ELSE A.heads[a]],
            !.top_chunk = chead,
            !.tos = chead + HeaderStride]

\* mutant: the new header is not linked to the chunk below it
allocate_unlinked(A, align_to, sz, xored_dtor) ==
    LET chead == A.tos + offset_to_alignment(A.tos, align_to)
        hd    == [prev     |-> NULL,
                  dtor     |-> xored_dtor,
                  checksum |-> make_checksum(NULL, xored_dtor)]
    IN  [A EXCEPT
            !.heads = [a \in (DOMAIN A.heads) \cup {chead} |->
                          IF a = chead THEN hd ELSE A.heads[a]],
            !.top_chunk = chead,
            !.tos = (chead + HeaderStride + sz) % WordSize]

allocate(A, align_to, sz, xored_dtor) ==
    LET chead == A.tos + offset_to_alignment(A.tos, align_to)
        hd    == [prev     |-> A.top_chunk,
                  dtor     |-> xored_dtor,
                  checksum |-> make_checksum(A.top_chunk, xored_dtor)]
    IN  [A EXCEPT
            !.heads = [a \in (DOMAIN A.heads) \cup {chead} |->
                          IF a = chead THEN hd ELSE A.heads[a]],
            !.top_chunk = chead,
            !.tos = (chead + HeaderStride + sz) % WordSize]

allocate_T(A, T) == allocate(A, alignment(T), T.size, xor_fptr(call_dtor(T)))

\* mutant: the object is constructed at the header, not behind it
push_at_header(A, T) ==
    LET B == allocate_T(A, T)
    IN  [B EXCEPT !.constructed = Append(B.constructed,
                                         [type |-> T.name, obj |-> B.top_chunk]),
                  !.ret = B.top_chunk]

\* allocate<T>(); return new(top_object()) T();
push(A, T) ==
    LET B == allocate_T(A, T)
    IN  [B EXCEPT !.constructed = Append(B.constructed,
                                         [type |-> T.name, obj |-> top_object(B)]),
                  !.ret = top_object(B)]

alloc(A, T) == IF mem_available(A, T) THEN push(A, T) ELSE [A EXCEPT !.ret = NULL]

\* mutant: the chunk is taken back when the constructor throws
push_throwing_rollback(A, T) ==
    [A EXCEPT !.constructed = Append(A.constructed,
                                     [type |-> T.name,
                                      obj |-> top_object(allocate_T(A, T))]),
              !.ret = NULL]

\* allocate<T>(); new(top_object()) T() throws: nothing is returned
push_throwing(A, T) ==
    LET B == allocate_T(A, T)
    IN  [B EXCEPT !.constructed = Append(B.constructed,
                                         [type |-> T.name, obj |-> top_object(B)]),
                  !.ret = NULL]

alloc_array(A, T, num_elements, wraps) ==
    LET array_bytes == (T.size * num_elements) % WordSize
        align_to    == alignment(T)
    IN  IF mem_available_array(A, T, num_elements, wraps)
        THEN LET B == allocate(A, align_to, array_bytes, array_of_primitives_dtor_xor)
             IN  [B EXCEPT !.ret = top_object(B)]
        ELSE [A EXCEPT !.ret = NULL]

\* the range test of is_valid(chead)
is_inside_arena(chead) == chead >= mem /\ chead <= end_of_mem

\* the bytes is_valid(chead) reads: the header's fields, once the range test
\* has passed
header_reads(chead) ==
    IF is_inside_arena(chead)
    THEN chead .. (chead + SizeofChunkHeader - 1)
    ELSE {}

\* is_valid(chead), for a header the arena holds
is_valid_chead(A, chead) ==
    /\ is_inside_arena(chead)
    /\ chead \in DOMAIN A.heads
    /\ checksum_ok(A.heads[chead].prev, A.heads[chead].dtor,
                   A.heads[chead].checksum)

\* the values is_valid(obj) may return for any pointer: where the range test
\* passes and the arena holds no header, the bytes read are unspecified
is_valid_outcomes(A, obj) ==
    LET chead == to_chunk_header(obj)
    IN  IF is_inside_arena(chead) /\ chead \notin DOMAIN A.heads
        THEN BOOLEAN
        ELSE { is_valid_chead(A, chead) }

\* is_valid(obj)
is_valid(A, obj) == is_valid_chead(A, to_chunk_header(obj))

\* mutant: the checksum is recomputed when the header is marked
mark_as_destructed_rechecksum(A, chead) ==
    IF is_valid_chead(A, chead)
    THEN [dtor |-> xor_fptr(A.heads[chead].dtor),
          A    |-> [A EXCEPT
                       !.heads[chead].dtor = free_marker_dtor_xor,
                       !.heads[chead].checksum =
                           make_checksum(A.heads[chead].prev, free_marker_dtor_xor)]]
    ELSE [dtor |-> NULL, A |-> A]

\* mutant: the stored destructor is returned without decoding it
mark_as_destructed_undecoded(A, chead) ==
    IF is_valid_chead(A, chead)
    THEN [dtor |-> A.heads[chead].dtor,
          A    |-> [A EXCEPT !.heads[chead].dtor = free_marker_dtor_xor]]
    ELSE [dtor |-> NULL, A |-> A]

\* the decoded destructor, and the arena with the header marked
mark_as_destructed(A, chead) ==
    IF is_valid_chead(A, chead)
    THEN [dtor |-> xor_fptr(A.heads[chead].dtor),
          A    |-> [A EXCEPT !.heads[chead].dtor = free_marker_dtor_xor]]
    ELSE [dtor |-> NULL, A |-> A]

\* mutant: one step of the scan instead of the loop
deallocate_as_possible_once(A) ==
    IF A.top_chunk # NULL /\ A.heads[A.top_chunk].dtor = free_marker_dtor_xor
    THEN [A EXCEPT !.tos = A.top_chunk,
                   !.top_chunk = A.heads[A.top_chunk].prev,
                   !.heads = [a \in (DOMAIN A.heads) \ {A.top_chunk} |->
                                 A.heads[a]]]
    ELSE A

\* mutant: the scan rewinds tos to the payload, not to the header
RECURSIVE deallocate_as_possible_to_object(_)
deallocate_as_possible_to_object(A) ==
    IF A.top_chunk # NULL /\ A.heads[A.top_chunk].dtor = free_marker_dtor_xor
    THEN deallocate_as_possible_to_object(
             [A EXCEPT !.tos = A.top_chunk + HeaderStride,
                       !.top_chunk = A.heads[A.top_chunk].prev,
                       !.heads = [a \in (DOMAIN A.heads) \ {A.top_chunk} |->
                                     A.heads[a]]])
    ELSE A

\* mutant: the scan unlinks the chunks but leaves tos where it was
RECURSIVE deallocate_as_possible_keep_tos(_)
deallocate_as_possible_keep_tos(A) ==
    IF A.top_chunk # NULL /\ A.heads[A.top_chunk].dtor = free_marker_dtor_xor
    THEN deallocate_as_possible_keep_tos(
             [A EXCEPT !.top_chunk = A.heads[A.top_chunk].prev,
                       !.heads = [a \in (DOMAIN A.heads) \ {A.top_chunk} |->
                                     A.heads[a]]])
    ELSE A

RECURSIVE deallocate_as_possible(_)
deallocate_as_possible(A) ==
    IF A.top_chunk # NULL /\ A.heads[A.top_chunk].dtor = free_marker_dtor_xor
    THEN deallocate_as_possible(
             [A EXCEPT !.tos = A.top_chunk,
                       !.top_chunk = A.heads[A.top_chunk].prev,
                       !.heads = [a \in (DOMAIN A.heads) \ {A.top_chunk} |->
                                     A.heads[a]]])
    ELSE A

\* dtor(obj): the call through the decoded function pointer
invoke(A, dtor, obj) ==
    IF dtor = NULL
    THEN [A EXCEPT !.crashed = TRUE]
    ELSE [A EXCEPT !.calls = Append(A.calls, [fn |-> dtor, obj |-> obj]),
                   !.at = Append(A.at, [obj |-> obj, tos |-> A.tos,
                                        top_chunk |-> A.top_chunk,
                                        heads |-> A.heads])]

\* mutant: pop calls the destructor before the scan
pop_dtor_before_scan(A, chead, obj) ==
    LET m == mark_as_destructed(A, chead)
    IN  deallocate_as_possible(invoke(m.A, m.dtor, obj))

\* mutant: pop leaves out the scan
pop_without_scan(A, chead, obj) ==
    LET m == mark_as_destructed(A, chead)
    IN  invoke(m.A, m.dtor, obj)

pop(A, chead, obj) ==
    LET m == mark_as_destructed(A, chead)
        B == deallocate_as_possible(m.A)
    IN  invoke(B, m.dtor, obj)

\* mutant: an interior destruct calls the destructor and then marks the header
destruct_dtor_first(A, chead, obj) ==
    LET m == mark_as_destructed(A, chead)
        B == invoke(A, m.dtor, obj)
    IN  [m.A EXCEPT !.calls = B.calls, !.at = B.at, !.crashed = B.crashed]

\* mutant: an interior destruct calls the destructor but leaves the header
\* unmarked
destruct_unmarked(A, chead, obj) ==
    LET m == mark_as_destructed(A, chead)
    IN  invoke(A, m.dtor, obj)

destruct(A, chead, obj) ==
    LET m == mark_as_destructed(A, chead)
    IN  invoke(m.A, m.dtor, obj)

dealloc(A, obj) ==
    IF obj # NULL
    THEN IF is_top(A, obj)
         THEN pop(A, to_chunk_header(obj), obj)
         ELSE destruct(A, to_chunk_header(obj), obj)
    ELSE A

\* mutant: one pop instead of the loop
dealloc_all_once(A) ==
    IF A.top_chunk # NULL /\ ~A.crashed
    THEN pop(A, A.top_chunk, to_object(A.top_chunk))
    ELSE A

\* mutant: at most two pops instead of the loop
dealloc_all_twice(A) == dealloc_all_once(dealloc_all_once(A))

RECURSIVE dealloc_all(_)
dealloc_all(A) ==
    IF A.top_chunk # NULL /\ ~A.crashed
    THEN dealloc_all(pop(A, A.top_chunk, to_object(A.top_chunk)))
    ELSE A

(* ------------------------------------------------------------------ *)
(* History                                                            *)
(* ------------------------------------------------------------------ *)

\* the headers reachable from top_chunk through prev
RECURSIVE ChainFrom(_, _)
ChainFrom(h, c) ==
    IF c = NULL \/ c \notin DOMAIN h THEN {} ELSE {c} \cup ChainFrom(h, h[c].prev)

Chain(A) == ChainFrom(A.heads, A.top_chunk)

\* how many of the calls are the destructor fn applied to obj
RECURSIVE CountCalls(_, _, _)
CountCalls(cs, fn, obj) ==
    IF cs = << >> THEN 0
    ELSE (IF Head(cs).fn = fn /\ Head(cs).obj = obj THEN 1 ELSE 0)
         + CountCalls(Tail(cs), fn, obj)

\* the chunks os of the arena after an operation that left the arena as A
Track(os, A) ==
    [i \in DOMAIN os |->
             [os[i] EXCEPT
                !.state = IF os[i].hdr \notin Chain(A) THEN "Reclaimed"
                          ELSE IF A.heads[os[i].hdr].dtor = free_marker_dtor_xor
                               THEN "Destructed"
                               ELSE "Allocated",
                !.dtors = @ + CountCalls(A.calls, os[i].fn, os[i].ptr)]]

\* the chunks that are still on the arena
OnArena(os) == SelectSeq(os, LAMBDA o : o.state # "Reclaimed")

\* the record of a chunk just allocated by an operation that went from A to B
NewObj(A, B, T, n, fn) ==
    [hdr |-> B.top_chunk, ptr |-> B.ret, size |-> T.size * n,
     type |-> T.name, align |-> T.align, n |-> n, fn |-> fn,
     before |-> A.tos, state |-> "Allocated", dtors |-> 0, built |-> TRUE]

\* an operation that passes no constructor arguments
NoArgs == [args |-> << >>, alloc |-> << >>, push |-> << >>, ctor |-> << >>]

CommitFwd(B, os, l, f) ==
    /\ fwd' = f
    /\ at' = B.at
    /\ tos' = B.tos
    /\ top_chunk' = B.top_chunk
    /\ heads' = B.heads
    /\ crashed' = B.crashed
    /\ destroyed' = (l.op = "destroy")
    /\ calls' = B.calls
    /\ constructed' = B.constructed
    /\ objs' = os
    /\ last' = l
    /\ UNCHANGED << checksum_cookie, xor_cookie, mem, memory_count, ctor >>

Commit(B, os, l) == CommitFwd(B, os, l, NoArgs)

\* the record of an operation: its name, the type and element count it was
\* instantiated and called with, its pointer argument and its result; fresh
\* says that the argument is the result of the operation just before it
Op(op, type, n, arg, ret) ==
    [op |-> op, type |-> type, n |-> n, arg |-> arg, ret |-> ret,
     fresh |-> (arg # NULL /\ arg = last.ret)]

\* the pointers the caller holds to objects it has not deallocated
LivePtrs ==
    { objs[i].ptr : i \in { j \in DOMAIN objs : objs[j].state = "Allocated"
                                                  /\ objs[j].built } }

(* ------------------------------------------------------------------ *)
(* Specification                                                      *)
(* ------------------------------------------------------------------ *)

\* basic_obstack(capacity, a): the buffer is acquired from the allocator
InitOwned ==
    /\ mem \in Bases
    /\ \E c \in Capacities :
          /\ ctor = [kind |-> "owned", bytes |-> c]
          /\ memory_count = to_alloc_capacity(c)
    /\ calls = << [fn |-> allocator_allocate, obj |-> mem] >>

\* basic_obstack(buffer, buffer_size, a) called as the test does, with
\* sizeof(buffer) as buffer_size: memory_holder keeps it as its element count
InitBorrowed ==
    /\ mem \in Bases
    /\ \E s \in BufferSizes :
          /\ ctor = [kind |-> "borrowed", bytes |-> s]
          /\ memory_count = s
    /\ calls = << >>

Init ==
    /\ \E c \in CookiePairs : checksum_cookie = c[1] /\ xor_cookie = c[2]
    /\ (InitOwned \/ InitBorrowed)
    /\ destroyed = FALSE
    /\ tos = mem
    /\ top_chunk = NULL
    /\ heads = [a \in {} |-> 0]
    /\ crashed = FALSE
    /\ objs = << >>
    /\ constructed = << >>
    /\ last = [op |-> "construct", type |-> "", n |-> 0, arg |-> NULL,
               ret |-> NULL, fresh |-> FALSE]
    /\ fwd = NoArgs
    /\ at = << >>

\* the caller may use the arena, and asks for memory only while size() is no
\* more than the number of bytes it requested or supplied
Usable == ~crashed /\ ~destroyed

CallerAllocates == Usable /\ size(Arena) <= ctor.bytes

Alloc ==
    /\ CallerAllocates
    /\ \E T \in Types :
          LET B == alloc(Arena, T)
              l == Op("alloc", T.name, 1, NULL, B.ret)
          IN  IF B.ret # NULL
              THEN Commit(B, Append(Track(OnArena(objs), B),
                                    NewObj(Arena, B, T, 1, call_dtor(T))), l)
              ELSE Commit(B, Track(OnArena(objs), B), l)

AllocArray ==
    /\ CallerAllocates
    /\ \E T \in PodTypes, n \in 0 .. MaxElems, wraps \in BOOLEAN :
          LET B == alloc_array(Arena, T, n, wraps)
              l == Op("alloc_array", T.name, n, NULL, B.ret)
          IN  IF B.ret # NULL
              THEN Commit(B, Append(Track(OnArena(objs), B),
                                    NewObj(Arena, B, T, n, array_of_primitives_dtor)), l)
              ELSE Commit(B, Track(OnArena(objs), B), l)

Dealloc ==
    /\ Usable
    /\ \E obj \in LivePtrs \cup {NULL} :
          LET B == dealloc(Arena, obj)
          IN  Commit(B, Track(OnArena(objs), B), Op("dealloc", "", 0, obj, NULL))

DeallocAll ==
    /\ Usable
    /\ LET B == dealloc_all(Arena)
       IN  Commit(B, Track(OnArena(objs), B), Op("dealloc_all", "", 0, NULL, NULL))

\* ~memory_holder: if(memory) allocator.deallocate(memory, memory_count)
release(A) ==
    IF mem # NULL /\ ~A.crashed
    THEN [A EXCEPT !.calls = Append(A.calls,
                                    [fn |-> allocator_deallocate, obj |-> mem])]
    ELSE A

\* mutant: the buffer is released before dealloc_all runs
Destroy_release_first ==
    /\ Usable
    /\ LET B == dealloc_all(release(Arena))
       IN  Commit(B, Track(OnArena(objs), B), Op("destroy", "", 0, NULL, NULL))

\* ~basic_obstack: dealloc_all(), then the members are destroyed
Destroy ==
    /\ Usable
    /\ LET B == release(dealloc_all(Arena))
       IN  Commit(B, Track(OnArena(objs), B), Op("destroy", "", 0, NULL, NULL))

Next == Alloc \/ AllocArray \/ Dealloc \/ DeallocAll \/ Destroy

Spec == Init /\ [][Next]_vars

\* element counts whose byte size, or whose address sum, exceeds a size_t
WideElems == { WordSize \div 8, WordSize - 1 }

\* alloc_array<T>(n) for the element counts of WideElems
AllocArrayWide ==
    /\ CallerAllocates
    /\ \E T \in PodTypes, n \in WideElems, wraps \in BOOLEAN :
          LET B == alloc_array(Arena, T, n, wraps)
              l == Op("alloc_array", T.name, n, NULL, B.ret)
          IN  IF B.ret # NULL
              THEN Commit(B, Append(Track(OnArena(objs), B),
                                    NewObj(Arena, B, T, n, array_of_primitives_dtor)), l)
              ELSE Commit(B, Track(OnArena(objs), B), l)

\* no chunk of the arena comes from an element count of WideElems
NoWideChunk == \A i \in DOMAIN objs : objs[i].n <= MaxElems

NextWide == NoWideChunk /\ (Next \/ AllocArrayWide)

\* the arena with callers that pass any size_t to alloc_array, up to the
\* first such call that returns a chunk
SpecWide == Init /\ [][NextWide]_vars

(* ------------------------------------------------------------------ *)
(* alloc<T>(a1 .. ak): the overloads of alloc and push and the        *)
(* constructors of the class constructed.  A parameter list is a      *)
(* tuple of "c" (const Ti &) and "n" (Ti &); an argument list is a    *)
(* tuple of "c" (a const lvalue) and "n" (a non-const lvalue).        *)
(* ------------------------------------------------------------------ *)

\* k parameters const Ti &
AllConst(k) == [i \in 1 .. k |-> "c"]

\* the overloads of alloc that take arguments
alloc_overloads ==
    { << "c" >>, << "n" >>,
      << "c", "c" >>, << "n", "c" >>, << "c", "n" >>, << "n", "n" >>,
      << "c", "c", "c" >>, << "n", "c", "c" >>, << "c", "n", "c" >>,
      << "c", "c", "n" >>, << "c", "n", "n" >>, << "n", "c", "n" >>,
      << "n", "n", "c" >>, << "n", "n", "n" >> }
       \cup { AllConst(k) : k \in 4 .. 10 }

\* mutant: push has no overload taking T1 &
push_overloads_const_only ==
    { << "c" >>,
      << "c", "c" >>, << "n", "c" >>, << "c", "n" >>, << "n", "n" >>,
      << "c", "c", "c" >>, << "n", "c", "c" >>, << "c", "n", "c" >>,
      << "c", "c", "n" >>, << "c", "n", "n" >>, << "n", "c", "n" >>,
      << "n", "n", "c" >>, << "n", "n", "n" >> }
       \cup { AllConst(k) : k \in 4 .. 10 }

\* the overloads of push that take arguments
push_overloads ==
    { << "c" >>, << "n" >>,
      << "c", "c" >>, << "n", "c" >>, << "c", "n" >>, << "n", "n" >>,
      << "c", "c", "c" >>, << "n", "c", "c" >>, << "c", "n", "c" >>,
      << "c", "c", "n" >>, << "c", "n", "n" >>, << "n", "c", "n" >>,
      << "n", "n", "c" >>, << "n", "n", "n" >> }
       \cup { AllConst(k) : k \in 4 .. 10 }

\* the constructors of the test class CtorManiac that take arguments
CtorManiac_ctors ==
    { << "c" >>, << "n" >>,
      << "c", "c" >>, << "n", "c" >>, << "c", "n" >>, << "n", "n" >>,
      << "c", "c", "c" >>, << "n", "c", "c" >>, << "c", "n", "c" >>,
      << "c", "c", "n" >>, << "c", "n", "n" >>, << "n", "c", "n" >>,
      << "n", "n", "c" >>, << "n", "n", "n" >>,
      AllConst(10) }

\* CtorManiac: one enum member
CtorManiac == [name |-> "CtorManiac", size |-> 4, align |-> 4, fn |-> 8]

\* how the arguments q are seen inside a function template with parameters
\* p: const through const Ti &, as they are through Ti & (Ti is deduced
\* const for a const argument)
Bound(p, q) == [i \in DOMAIN q |-> IF p[i] = "c" THEN "c" ELSE q[i]]

\* binding a non-const lvalue to X & is the better conversion than binding
\* it to const X &: b1 is nowhere worse than b2 and somewhere better
BetterConversion(b1, b2) ==
    /\ \A i \in DOMAIN b1 : ~(b1[i] = "c" /\ b2[i] = "n")
    /\ \E i \in DOMAIN b1 : b1[i] = "n" /\ b2[i] = "c"

\* const Ti & is more specialised than Ti &
MoreSpecialized(p1, p2) ==
    /\ p1 # p2
    /\ \A i \in DOMAIN p1 : p2[i] = "c" => p1[i] = "c"

\* the function templates of ovs selected for the arguments q: those that
\* are better than every other candidate, by conversion or, when the
\* conversions are the same, by being more specialised
resolve_template(ovs, q) ==
    LET cand == { p \in ovs : Len(p) = Len(q) }
    IN  { p \in cand :
            \A p2 \in cand \ {p} :
               \/ BetterConversion(Bound(p, q), Bound(p2, q))
               \/ (Bound(p, q) = Bound(p2, q) /\ MoreSpecialized(p, p2)) }

\* the constructors of ovs selected for the arguments q: X & does not bind
\* a const argument
resolve_ctor(ovs, q) ==
    LET cand == { p \in ovs : /\ Len(p) = Len(q)
                              /\ \A i \in DOMAIN q : ~(p[i] = "n" /\ q[i] = "c") }
    IN  { p \in cand : \A p2 \in cand \ {p} : BetterConversion(p, p2) }

\* the call alloc<T>(q) is ill-formed
IllFormed(q) == [args |-> q, alloc |-> << >>, push |-> << >>, ctor |-> << >>]

\* alloc<T>(a1..ak) calls push<T>(a1..ak), which calls T(a1..ak)
forward(q) ==
    LET A == resolve_template(alloc_overloads, q)
    IN  IF Cardinality(A) # 1 THEN IllFormed(q)
        ELSE LET pa == CHOOSE p \in A : TRUE
                 q1 == Bound(pa, q)
                 P  == resolve_template(push_overloads, q1)
             IN  IF Cardinality(P) # 1 THEN IllFormed(q)
                 ELSE LET pp == CHOOSE p \in P : TRUE
                          q2 == Bound(pp, q1)
                          C  == resolve_ctor(CtorManiac_ctors, q2)
                      IN  IF Cardinality(C) # 1 THEN IllFormed(q)
                          ELSE [args |-> q, alloc |-> pa, push |-> pp,
                                ctor |-> CHOOSE p \in C : TRUE]

\* the argument lists alloc<CtorManiac> is called with: every combination of
\* one to three arguments, and ten arguments
ArgLists ==
    UNION { [1 .. k -> {"c", "n"}] : k \in 1 .. 3 }
       \cup { AllConst(10), [i \in 1 .. 10 |-> "n"],
              [i \in 1 .. 10 |-> IF i % 2 = 0 THEN "c" ELSE "n"] }

\* alloc<CtorManiac>(a1 .. ak)
AllocArgs ==
    /\ CallerAllocates
    /\ \E q \in ArgLists :
          LET f == forward(q)
              B == alloc(Arena, CtorManiac)
              l == Op("alloc", CtorManiac.name, 1, NULL, B.ret)
          IN  /\ f.ctor # << >>
              /\ IF B.ret # NULL
                 THEN CommitFwd(B, Append(Track(OnArena(objs), B),
                                          NewObj(Arena, B, CtorManiac, 1,
                                                 call_dtor(CtorManiac))), l, f)
                 ELSE Commit(B, Track(OnArena(objs), B), l)

NextCtor == AllocArgs \/ Dealloc

\* the arena with callers that pass constructor arguments
SpecCtor == Init /\ [][NextCtor]_vars

(* ------------------------------------------------------------------ *)
(* Construction from any arguments                                    *)
(* ------------------------------------------------------------------ *)

\* BOOST_ASSERT_MSG(expr, msg): the values of crashed after it.  A build
\* with assertions aborts when expr is false, a build with
\* BOOST_DISABLE_ASSERTS or NDEBUG does not evaluate it
boost_assert(expr) == IF expr THEN { FALSE } ELSE { FALSE, TRUE }

\* basic_obstack(capacity, a) for any capacity and any result of the
\* allocator
InitOwnedAny ==
    /\ mem \in Bases \cup { NULL }
    /\ \E c \in Capacities \cup { 0 } :
          /\ ctor = [kind |-> "owned", bytes |-> c]
          /\ memory_count = to_alloc_capacity(c)
          /\ crashed \in boost_assert(c # 0 /\ mem # NULL)
    /\ calls = << [fn |-> allocator_allocate, obj |-> mem] >>

\* basic_obstack(buffer, buffer_size, a) for any buffer and any buffer_size
InitBorrowedAny ==
    /\ \E buffer \in Bases \cup { NULL }, s \in BufferSizes \cup { 0 } :
          /\ mem = (IF buffer # NULL /\ s # 0 THEN buffer ELSE NULL)
          /\ ctor = [kind |-> "borrowed", bytes |-> IF buffer = NULL THEN 0 ELSE s]
          /\ memory_count = s
          /\ crashed \in boost_assert(buffer # NULL /\ s # 0)
    /\ calls = << >>

InitAny ==
    /\ \E c \in CookiePairs : checksum_cookie = c[1] /\ xor_cookie = c[2]
    /\ (InitOwnedAny \/ InitBorrowedAny)
    /\ destroyed = FALSE
    /\ tos = mem
    /\ top_chunk = NULL
    /\ heads = [a \in {} |-> 0]
    /\ objs = << >>
    /\ constructed = << >>
    /\ last = [op |-> "construct", type |-> "", n |-> 0, arg |-> NULL,
               ret |-> NULL, fresh |-> FALSE]
    /\ fwd = NoArgs
    /\ at = << >>

\* alloc<T>() on an arena whose memory is the null pointer: the store of the
\* chunk header through it may fault
AllocFaults ==
    /\ CallerAllocates
    /\ mem = NULL
    /\ \E T \in Types :
          /\ mem_available(Arena, T)
          /\ Commit([Arena EXCEPT !.crashed = TRUE], OnArena(objs),
                    Op("alloc", T.name, 1, NULL, NULL))

NextAny == Next \/ AllocFaults

\* the arena after any construction
SpecAny == InitAny /\ [][NextAny]_vars

(* ------------------------------------------------------------------ *)
(* Callers that deallocate an object twice                            *)
(* ------------------------------------------------------------------ *)

\* the pointers to objects that were destructed in place and whose chunks
\* are still on the arena
StalePtrs == { objs[i].ptr : i \in { j \in DOMAIN objs : objs[j].state = "Destructed" } }

\* dealloc(obj) for an object that was deallocated before
DeallocStale ==
    /\ Usable
    /\ \E obj \in StalePtrs :
          LET B == dealloc(Arena, obj)
          IN  Commit(B, Track(OnArena(objs), B), Op("dealloc", "", 0, obj, NULL))

NextStale == Next \/ DeallocStale

\* the arena with callers that may deallocate an object a second time
SpecStale == Init /\ [][NextStale]_vars

(* ------------------------------------------------------------------ *)
(* Constructors that throw                                            *)
(* ------------------------------------------------------------------ *)

\* alloc<T>() where the memory is available and T's constructor throws: the
\* exception leaves alloc
AllocThrows ==
    /\ CallerAllocates
    /\ mem_available(Arena, CtorManiac)
    /\ LET B == push_throwing(Arena, CtorManiac)
           o == [NewObj(Arena, B, CtorManiac, 1, call_dtor(CtorManiac))
                    EXCEPT !.ptr = top_object(B), !.built = FALSE]
       IN  Commit(B, Append(Track(OnArena(objs), B), o),
                  Op("alloc_throw", CtorManiac.name, 1, NULL, NULL))

NextThrow == Next \/ AllocThrows

\* the arena with a class whose constructor may throw
SpecThrow == Init /\ [][NextThrow]_vars

(* ------------------------------------------------------------------ *)
(* Destructors that call back into the arena                          *)
(* ------------------------------------------------------------------ *)

\* obj is on the arena A and its header is not marked free
is_live(A, obj) ==
    /\ to_chunk_header(obj) \in Chain(A)
    /\ A.heads[to_chunk_header(obj)].dtor # free_marker_dtor_xor

\* the body of the destructor of r.obj: the destructors of the objects it
\* deallocates do not call back; it deallocates only an object that is live
reenter(A, r) ==
    CASE r.op = "alloc"       -> alloc(A, CtorManiac)
      [] r.op = "dealloc"     -> IF is_live(A, r.arg) THEN dealloc(A, r.arg) ELSE A
      [] r.op = "dealloc_all" -> dealloc_all(A)
      [] OTHER                -> A

\* dtor(obj), where dtor may be the destructor that calls back
invoke_reentrant(A, dtor, obj, r) ==
    LET B == invoke(A, dtor, obj)
    IN  IF ~B.crashed /\ obj = r.obj /\ dtor = r.fn THEN reenter(B, r) ELSE B

\* mutant: pop calls the destructor before it marks the header and scans
pop_reentrant_dtor_first(A, chead, obj, r) ==
    LET B == invoke_reentrant(A, xor_fptr(A.heads[chead].dtor), obj, r)
    IN  IF chead \in DOMAIN B.heads
        THEN deallocate_as_possible(mark_as_destructed(B, chead).A)
        ELSE B

pop_reentrant(A, chead, obj, r) ==
    LET m == mark_as_destructed(A, chead)
        B == deallocate_as_possible(m.A)
    IN  invoke_reentrant(B, m.dtor, obj, r)

destruct_reentrant(A, chead, obj, r) ==
    LET m == mark_as_destructed(A, chead)
    IN  invoke_reentrant(m.A, m.dtor, obj, r)

dealloc_reentrant(A, obj, r) ==
    IF obj # NULL
    THEN IF is_top(A, obj)
         THEN pop_reentrant(A, to_chunk_header(obj), obj, r)
         ELSE destruct_reentrant(A, to_chunk_header(obj), obj, r)
    ELSE A

RECURSIVE dealloc_all_reentrant(_, _)
dealloc_all_reentrant(A, r) ==
    IF A.top_chunk # NULL /\ ~A.crashed
    THEN dealloc_all_reentrant(
             pop_reentrant(A, A.top_chunk, to_object(A.top_chunk), r), r)
    ELSE A

\* the chunks after an operation that left the arena as B, with the chunk a
\* destructor allocated in it: that chunk was placed at the top of stack, so
\* the chunks that were at its header's address or above had been reclaimed
TrackReentrant(B) ==
    IF B.ret = NULL
    THEN Track(OnArena(objs), B)
    ELSE LET hdr == to_chunk_header(B.ret)
             old == Track(OnArena(objs), B)
         IN  [i \in DOMAIN old |->
                 IF old[i].hdr >= hdr
                 THEN [old[i] EXCEPT !.state = "Reclaimed"]
                 ELSE old[i]]
             \o Track(<< [NewObj(Arena, B, CtorManiac, 1, call_dtor(CtorManiac))
                             EXCEPT !.hdr = hdr, !.before = hdr] >>, B)

\* what the destructor of chunk i of objs may do: allocate an object, while
\* no object allocated by a destructor is on the arena, deallocate another
\* object or nothing, or deallocate all objects
Reentries(i) ==
    LET o == objs[i]
    IN  { [obj |-> o.ptr, fn |-> o.fn, op |-> "dealloc", arg |-> arg] :
             arg \in (LivePtrs \ { o.ptr }) \cup { NULL } }
           \cup { [obj |-> o.ptr, fn |-> o.fn, op |-> "dealloc_all", arg |-> NULL] }
           \cup (IF \E j \in DOMAIN objs : /\ objs[j].type = CtorManiac.name
                                           /\ objs[j].state # "Reclaimed"
                 THEN {}
                 ELSE { [obj |-> o.ptr, fn |-> o.fn, op |-> "alloc", arg |-> NULL] })

\* the live objects whose destructor may call back: objects of a class, not
\* arrays of primitives
ReentrantObjs ==
    { i \in DOMAIN objs : /\ objs[i].state = "Allocated" /\ objs[i].built
                          /\ objs[i].type # CtorManiac.name
                          /\ objs[i].fn # array_of_primitives_dtor }

\* dealloc(obj) of a live object whose destructor calls back
DeallocReentrant ==
    /\ Usable
    /\ \E i \in ReentrantObjs :
       \E r \in Reentries(i) :
          LET B == dealloc_reentrant(Arena, r.obj, r)
          IN  Commit(B, TrackReentrant(B), Op("dealloc", "", 0, r.obj, NULL))

\* dealloc_all() while the destructor of a live object calls back
DeallocAllReentrant ==
    /\ Usable
    /\ \E i \in ReentrantObjs :
       \E r \in Reentries(i) :
          LET B == dealloc_all_reentrant(Arena, r)
          IN  Commit(B, TrackReentrant(B), Op("dealloc_all", "", 0, NULL, NULL))

NextReentrant == Alloc \/ AllocArray \/ DeallocReentrant \/ DeallocAllReentrant

\* the arena with objects whose destructors call back into it
SpecReentrant == Init /\ [][NextReentrant]_vars

(* ------------------------------------------------------------------ *)
(* Static initialisation                                              *)
(* ------------------------------------------------------------------ *)

\* the static members of ptr_sec and the two marker constants have static
\* storage: they are zero until the initialisers of obstack.cpp have run
Uninitialised == checksum_cookie = 0 /\ xor_cookie = 0

\* an arena constructed by a static object: the initialisers of obstack.cpp
\* have run before the initialisers of its translation unit, or have not
InitStatic ==
    /\ \/ \E c \in CookiePairs : checksum_cookie = c[1] /\ xor_cookie = c[2]
       \/ Uninitialised
    /\ (InitOwned \/ InitBorrowed)
    /\ destroyed = FALSE
    /\ tos = mem
    /\ top_chunk = NULL
    /\ heads = [a \in {} |-> 0]
    /\ crashed = FALSE
    /\ objs = << >>
    /\ constructed = << >>
    /\ last = [op |-> "construct", type |-> "", n |-> 0, arg |-> NULL,
               ret |-> NULL, fresh |-> FALSE]
    /\ fwd = NoArgs
    /\ at = << >>

\* the initialisers of obstack.cpp run: _checksum_cookie, _xor_cookie, then
\* free_marker_dtor_xor and array_of_primitives_dtor_xor
StaticInit ==
    /\ Uninitialised
    /\ \E c \in CookiePairs : checksum_cookie' = c[1] /\ xor_cookie' = c[2]
    /\ last' = Op("static_init", "", 0, NULL, NULL)
    /\ calls' = << >>
    /\ constructed' = << >>
    /\ at' = << >>
    /\ fwd' = NoArgs
    /\ objs' = OnArena(objs)
    /\ UNCHANGED << mem, memory_count, tos, top_chunk, heads, crashed,
                    destroyed, ctor >>

\* before the initialisers of obstack.cpp have run, the initialisers of the
\* other translation unit allocate objects
NextStatic ==
    \/ Uninitialised /\ (Alloc \/ StaticInit)
    \/ ~Uninitialised /\ Next

\* the arena as a static object of another translation unit
SpecStatic == InitStatic /\ [][NextStatic]_vars

(* ------------------------------------------------------------------ *)
(* The loops of dealloc_all and of the reclamation scan               *)
(* ------------------------------------------------------------------ *)

\* the number of iterations of the loop of deallocate_as_possible on the
\* arena A, counted up to n
RECURSIVE scan_steps(_, _)
scan_steps(A, n) ==
    IF n # 0 /\ A.top_chunk # NULL
             /\ A.heads[A.top_chunk].dtor = free_marker_dtor_xor
    THEN 1 + scan_steps([A EXCEPT !.tos = A.top_chunk,
                                  !.top_chunk = A.heads[A.top_chunk].prev,
                                  !.heads = [a \in (DOMAIN A.heads) \ {A.top_chunk} |->
                                                A.heads[a]]],
                        n - 1)
    ELSE 0

\* the number of iterations of the loop of dealloc_all on the arena A,
\* counted up to n
RECURSIVE dealloc_all_pops(_, _)
dealloc_all_pops(A, n) ==
    IF n # 0 /\ A.top_chunk # NULL /\ ~A.crashed
    THEN 1 + dealloc_all_pops(pop(A, A.top_chunk, to_object(A.top_chunk)), n - 1)
    ELSE 0

(* ------------------------------------------------------------------ *)
(* Properties                                                         *)
(* ------------------------------------------------------------------ *)

TypeOf(name) == CHOOSE T \in Types \cup {CtorManiac} : T.name = name

\* the bytes an allocation of n elements of T takes when tos is t:
\* padding + header_stride + payload
Need(t, T, n) == offset_to_alignment(t, alignment(T)) + HeaderStride + T.size * n

\* one past the last byte of a chunk (header and payload)
EndOf(o) == o.ptr + o.size

IsAllocOp(l) == l.op \in {"alloc", "alloc_array"}

\* the arena as the step leaves it
ArenaNext ==
    [tos |-> tos', top_chunk |-> top_chunk', heads |-> heads',
     calls |-> calls', constructed |-> constructed', crashed |-> crashed',
     ret |-> last'.ret]

\* C1: the bytes (header and payload) of any two live chunks are disjoint, a
\* chunk that is still on the arena lies wholly below tos, where no new chunk
\* is placed, and a chunk's memory is given back only when it and every chunk
\* allocated after it have been deallocated (their destructor has run).
C1_LiveChunksDisjoint ==
    /\ \A i, j \in DOMAIN objs :
          (i # j /\ objs[i].state = "Allocated" /\ objs[j].state = "Allocated")
          => (EndOf(objs[i]) <= objs[j].hdr \/ EndOf(objs[j]) <= objs[i].hdr)
    /\ \A i \in DOMAIN objs :
          objs[i].state # "Reclaimed" => EndOf(objs[i]) <= tos
    /\ \A i \in DOMAIN objs :
          objs[i].state = "Reclaimed"
          => \A j \in i .. Len(objs) :
                objs[j].state = "Reclaimed" /\ objs[j].dtors = 1

\* a chunk was allocated above an interior-destructed chunk and a live one
C1_Witness ==
    /\ IsAllocOp(last) /\ last.ret # NULL
    /\ Len(objs) >= 3
    /\ objs[Len(objs)].ptr = last.ret
    /\ \E i, j \in DOMAIN objs :
          /\ i < Len(objs) /\ j < Len(objs)
          /\ objs[i].state = "Allocated" /\ objs[j].state = "Destructed"

\* C2: the pointer a successful alloc<T> or alloc_array<T> returns is a
\* multiple of alignof(T) and its chunk header is at a multiple of
\* alignof(chunk_header), whatever was allocated and deallocated before.
C2_Aligned ==
    /\ \A i \in DOMAIN objs :
          /\ objs[i].ptr % objs[i].align = 0
          /\ objs[i].hdr % AlignofChunkHeader = 0
          /\ objs[i].ptr = objs[i].hdr + HeaderStride
    /\ (IsAllocOp(last) /\ last.ret # NULL)
          => /\ objs # << >>
             /\ objs[Len(objs)].ptr = last.ret
             /\ objs[Len(objs)].state = "Allocated"
             /\ objs[Len(objs)].type = last.type
             /\ last.ret % TypeOf(last.type).align = 0

\* a long double was allocated where padding was needed in front of its header
C2_Witness ==
    /\ last.op = "alloc" /\ last.ret # NULL /\ last.type = "long double"
    /\ objs[Len(objs)].hdr > objs[Len(objs)].before
    /\ Len(objs) >= 2

\* C3: an alloc or alloc_array that fails the capacity check returns null,
\* constructs nothing and changes neither tos, top_chunk nor any chunk header;
\* a request that needs one byte more than the bytes left fails this way.
C3_FailureLeavesState ==
    [][ IsAllocOp(last')
        => /\ (tos + Need(tos, TypeOf(last'.type), last'.n) = end_of_mem + 1)
                 => last'.ret = NULL
           /\ last'.ret = NULL
                 => /\ tos' = tos
                    /\ top_chunk' = top_chunk
                    /\ heads' = heads
                    /\ constructed' = << >>
                    /\ calls' = << >>
                    /\ objs' = OnArena(objs) ]_vars

\* an alloc that needed exactly one byte more than was left returned null
C3_Witness ==
    /\ last.op = "alloc" /\ last.ret = NULL
    /\ top_chunk # NULL
    /\ tos + Need(tos, TypeOf(last.type), last.n) = end_of_mem + 1

\* C4: alloc<T> succeeds whenever tos + padding + header_stride + sizeof(T)
\* <= C, in particular when the new chunk ends exactly at the capacity.
C4_AllocSucceedsWhenItFits ==
    [][ last'.op = "alloc"
        => ((tos + Need(tos, TypeOf(last'.type), 1) <= end_of_mem)
               => last'.ret # NULL) ]_vars

\* the destructor calls dealloc_all has to make for the chunks os: those of
\* the live chunks, the latest allocated first
RECURSIVE ReverseLive(_)
ReverseLive(os) ==
    IF os = << >> THEN << >>
    ELSE LET o == os[Len(os)]
             rest == ReverseLive(SubSeq(os, 1, Len(os) - 1))
         IN  IF o.state = "Allocated"
             THEN << [fn |-> o.fn, obj |-> o.ptr] >> \o rest
             ELSE rest

Empty == [a \in {} |-> 0]

\* C5: a dealloc changes size() only when its argument is the top object, and
\* then size() strictly decreases; the dealloc that leaves no live object, in
\* whatever order the objects were deallocated, leaves size() = 0 and
\* top_chunk null, the arena as it was constructed.
C5_AnyOrderEmpties ==
    [][ (last'.op = "dealloc" /\ last'.arg # NULL)
        => /\ (tos' # tos) => is_top(Arena, last'.arg)
           /\ is_top(Arena, last'.arg) => tos' < tos
           /\ (\A i \in DOMAIN objs' : objs'[i].state # "Allocated")
                 => /\ tos' = mem
                    /\ top_chunk' = NULL
                    /\ heads' = Empty
                    /\ \A i \in DOMAIN objs' :
                          objs'[i].state = "Reclaimed" /\ objs'[i].dtors = 1 ]_vars

\* three chunks were deallocated, the two lower ones while they were not top,
\* and the last dealloc emptied the arena
C5_Witness ==
    /\ last.op = "dealloc"
    /\ Len(objs) = 3
    /\ last.arg = objs[3].ptr
    /\ \A i \in DOMAIN objs : objs[i].state = "Reclaimed"
    /\ tos = mem /\ top_chunk = NULL

\* C6: dealloc_all calls the destructors of exactly the live objects, each
\* with the function registered for it, the latest allocated first; chunks
\* destructed earlier are passed over without a call.
C6_DeallocAllReverseOrder ==
    [][ last'.op = "dealloc_all"
        => /\ calls' = ReverseLive(OnArena(objs))
           /\ ~crashed' ]_vars

\* dealloc_all ran over a live, an interior-destructed and a live chunk
C6_Witness ==
    /\ last.op = "dealloc_all"
    /\ Len(objs) = 3 /\ Len(calls) = 2
    /\ calls[1].obj = objs[3].ptr
    /\ calls[2].obj = objs[1].ptr
    /\ objs[2].dtors = 1

\* C7: after dealloc_all, size() = 0 and top_chunk is null.
C7_DeallocAllEmpties ==
    last.op = "dealloc_all"
    => /\ size(Arena) = 0
       /\ top_chunk = NULL
       /\ \A i \in DOMAIN objs : objs[i].state = "Reclaimed"

\* dealloc_all ran on an arena with live and interior-destructed chunks
C7_Witness ==
    /\ last.op = "dealloc_all"
    /\ Len(calls) >= 1
    /\ Len(calls) < Len(objs)
    /\ size(Arena) = 0

\* C8, as claimed: dealloc right after alloc<T> of the same pointer returns
\* size() to the value before the alloc and runs the destructor once.
C8_SizeReturnsToPreAlloc ==
    (last.op = "dealloc" /\ last.fresh)
    => LET o == objs[Len(objs)]
       IN  (o.ptr = last.arg /\ o.fn # array_of_primitives_dtor)
           => /\ tos = o.before
              /\ o.dtors = 1

\* C8, amended: dealloc right after a successful alloc<T> or alloc_array<T>
\* of the same pointer runs the registered destructor once and returns tos to
\* the address of the chunk's header, which is the tos before the alloc plus
\* the padding that aligned the header, so to the old value when that was
\* aligned already.
C8_SizeReturnsToHeader ==
    (last.op = "dealloc" /\ last.fresh)
    => LET o == objs[Len(objs)]
           a == IF o.align > AlignofChunkHeader THEN o.align ELSE AlignofChunkHeader
       IN  /\ o.ptr = last.arg
           /\ o.state = "Reclaimed"
           /\ o.dtors = 1
           /\ calls = << [fn |-> o.fn, obj |-> o.ptr] >>
           /\ tos = o.hdr
           /\ tos >= o.before /\ tos - o.before < a /\ tos % a = 0
           /\ (o.before % a = 0) => tos = o.before

\* an object was deallocated right after its allocation had padded tos
C8_Witness ==
    /\ last.op = "dealloc" /\ last.fresh
    /\ objs[Len(objs)].ptr = last.arg
    /\ objs[Len(objs)].fn # array_of_primitives_dtor
    /\ tos > objs[Len(objs)].before

\* C9: dealloc of a live object that is not top calls its destructor and
\* changes nothing but the dtor field of its header, which becomes the
\* obfuscated free marker.
C9_InteriorDeallocFrame ==
    [][ (last'.op = "dealloc" /\ last'.arg # NULL /\ ~is_top(Arena, last'.arg))
        => LET chead == to_chunk_header(last'.arg)
           IN  /\ tos' = tos
               /\ top_chunk' = top_chunk
               /\ heads' = [heads EXCEPT ![chead].dtor = free_marker_dtor_xor]
               /\ heads[chead].dtor # free_marker_dtor_xor
               /\ calls' = << [fn |-> xor_ptr(heads[chead].dtor), obj |-> last'.arg] >>
               /\ \E i \in DOMAIN objs' :
                     /\ objs'[i].ptr = last'.arg
                     /\ objs'[i].fn = calls'[1].fn
                     /\ objs'[i].state = "Destructed" ]_vars

\* a live chunk below the top was deallocated
C9_Witness ==
    /\ last.op = "dealloc" /\ last.arg # NULL
    /\ top_chunk # NULL /\ last.arg < top_chunk
    /\ \E i \in DOMAIN objs :
          objs[i].ptr = last.arg /\ objs[i].state = "Destructed" /\ objs[i].dtors = 1

\* C10, as claimed: when the last object above an interior-deallocated one is
\* popped, size() is what it was before the interior object was allocated.
C10_SizeReturnsToPreInterior ==
    last.op = "dealloc"
    => \A i \in DOMAIN objs :
          (objs[i].state = "Reclaimed" /\ objs[i].ptr # last.arg)
          => tos = objs[i].before

\* C10, amended: when the last object above an interior-deallocated one is
\* popped, tos is at or below the address of the interior object's header,
\* which is the tos before its allocation plus the padding that aligned the
\* header; it is that address when the chunk allocated before it is still on
\* the arena.
C10_SizeReturnsToInteriorHeader ==
    last.op = "dealloc"
    => \A i \in DOMAIN objs :
          (objs[i].state = "Reclaimed" /\ objs[i].ptr # last.arg)
          => LET o == objs[i]
                 a == IF o.align > AlignofChunkHeader THEN o.align
                      ELSE AlignofChunkHeader
             IN  /\ tos <= o.hdr
                 /\ o.hdr >= o.before /\ o.hdr - o.before < a /\ o.hdr % a = 0
                 /\ (i = 1 \/ objs[i - 1].state # "Reclaimed") => tos = o.hdr
                 /\ o.dtors = 1
                 /\ objs[Len(objs)].ptr = last.arg

\* the pop of the top object reclaimed an interior-deallocated chunk whose
\* header had been padded and that lies above a chunk still on the arena
C10_Witness ==
    /\ last.op = "dealloc"
    /\ \E i \in DOMAIN objs :
          /\ i > 1
          /\ objs[i].state = "Reclaimed" /\ objs[i].ptr # last.arg
          /\ objs[i - 1].state = "Allocated"
          /\ objs[i].hdr > objs[i].before
          /\ tos = objs[i].hdr

\* the padding inserted in front of a chunk's header when it was allocated
Padding(o) == o.hdr - o.before

\* header_stride + padding + payload size, summed over the chunks os
RECURSIVE SumChunks(_)
SumChunks(os) ==
    IF os = << >> THEN 0
    ELSE Padding(Head(os)) + HeaderStride + Head(os).size + SumChunks(Tail(os))

\* the bytes between the chunks os that are no chunk's padding: the distance
\* from the end of a chunk (or from the start of the buffer) to the tos the
\* next chunk was allocated at
RECURSIVE Residue(_, _)
Residue(os, from) ==
    IF os = << >> THEN 0
    ELSE (Head(os).before - from) + Residue(Tail(os), EndOf(Head(os)))

\* one past the last byte of the top chunk, the start of the buffer if none
TopEnd(os) == IF os = << >> THEN mem ELSE EndOf(os[Len(os)])

\* C11, as claimed: size() is the sum of header_stride + padding + sizeof(T)
\* over the chunks reachable from top_chunk.
C11_SizeIsSumOverReachable ==
    size(Arena) = SumChunks(OnArena(objs))

\* C11, amended: the chunks reachable from top_chunk are exactly the live and
\* interior-destructed ones; size() is their sum of header_stride + padding +
\* sizeof(T) plus the bytes that pops left behind, which lie between the end
\* of a reachable chunk and the padding of the next, or below tos above the
\* top chunk; each header is less than MAX_ALIGN above the end of the chunk
\* below it and tos less than MAX_ALIGN above the end of the top chunk, and
\* after a successful allocation tos is the end of the top chunk.
C11_SizeIsSumPlusResidue ==
    LET on == OnArena(objs)
    IN  /\ Chain(Arena) = { on[i].hdr : i \in DOMAIN on }
        /\ size(Arena) = SumChunks(on) + Residue(on, mem) + (tos - TopEnd(on))
        /\ size(Arena) >= SumChunks(on)
        /\ tos >= TopEnd(on) /\ tos - TopEnd(on) < MAX_ALIGN
        /\ \A i \in DOMAIN on :
              LET below == IF i = 1 THEN mem ELSE EndOf(on[i - 1])
              IN  /\ on[i].before >= below
                  /\ on[i].hdr >= on[i].before
                  /\ on[i].hdr - below < MAX_ALIGN
        /\ (IsAllocOp(last) /\ last.ret # NULL) => tos = TopEnd(on)

\* a chunk was allocated where a pop had left the padding of a reclaimed
\* chunk behind, above a chunk that is still reachable
C11_Witness ==
    LET on == OnArena(objs)
    IN  /\ IsAllocOp(last) /\ last.ret # NULL
        /\ Len(on) >= 2
        /\ Residue(on, mem) > 0
        /\ size(Arena) > SumChunks(on)

\* the calls of cs that go to object destructors, not to the allocator
DtorCalls(cs) ==
    SelectSeq(cs, LAMBDA c : c.fn \notin {allocator_allocate, allocator_deallocate})

\* C12: every destructor call an operation makes (dealloc, the reclamation
\* scan, dealloc_all, the arena's destruction) goes to an object that was
\* live before the operation, with the function registered for it, and no
\* object is called twice; so no object's destructor has run more than once,
\* an object destructed by an interior dealloc is not destructed again, and
\* once the arena is destroyed every object's destructor has run exactly once.
C12_DestructedOnce ==
    [][ /\ \A k \in DOMAIN DtorCalls(calls') :
              /\ \E i \in DOMAIN objs :
                    /\ objs[i].state = "Allocated" /\ objs[i].dtors = 0
                    /\ objs[i].ptr = DtorCalls(calls')[k].obj
                    /\ objs[i].fn = DtorCalls(calls')[k].fn
              /\ \A j \in DOMAIN DtorCalls(calls') :
                    DtorCalls(calls')[j].obj = DtorCalls(calls')[k].obj => j = k
        /\ \A i \in DOMAIN objs' :
              /\ objs'[i].dtors <= 1
              /\ objs'[i].state = "Allocated" <=> objs'[i].dtors = 0
        /\ destroyed'
              => /\ \A i \in DOMAIN objs' :
                       objs'[i].state = "Reclaimed" /\ objs'[i].dtors = 1
                 /\ Len(objs') = Len(OnArena(objs))
                 /\ top_chunk' = NULL ]_vars

\* an arena was destroyed with a live chunk, an interior-destructed chunk
\* and a live chunk on it
C12_Witness ==
    /\ destroyed
    /\ Len(objs) = 3
    /\ Len(DtorCalls(calls)) = 2
    /\ DtorCalls(calls)[1].obj = objs[3].ptr
    /\ DtorCalls(calls)[2].obj = objs[1].ptr
    /\ \A i \in DOMAIN objs : objs[i].dtors = 1

\* the calls of cs that go to the raw allocator
AllocatorCalls(cs) ==
    SelectSeq(cs, LAMBDA c : c.fn \in {allocator_allocate, allocator_deallocate})

\* C13: the arena's destruction calls the destructors of the live objects,
\* the latest allocated first, and then, as its last call, the allocator's
\* deallocate on the buffer, once; nothing runs on a destroyed arena; the
\* allocator's allocate is called once by the owning constructor and never
\* for a borrowed buffer, and no other operation calls the allocator.
C13_DestroyReleasesLast ==
    [][ /\ last'.op = "destroy"
              => /\ calls' = ReverseLive(OnArena(objs))
                                \o << [fn |-> allocator_deallocate, obj |-> mem] >>
                 /\ destroyed' /\ ~crashed'
                 /\ tos' = mem /\ top_chunk' = NULL
        /\ last'.op # "destroy"
              => /\ AllocatorCalls(calls') = << >>
                 /\ ~destroyed'
        /\ ~destroyed
        /\ (last.op = "construct" /\ ctor.kind = "owned")
              => calls = << [fn |-> allocator_allocate, obj |-> mem] >>
        /\ (last.op = "construct" /\ ctor.kind = "borrowed")
              => calls = << >> ]_vars

\* an arena that owned its buffer was destroyed with a live chunk, an
\* interior-destructed chunk and a live chunk on it
C13_Witness ==
    /\ destroyed /\ ctor.kind = "owned"
    /\ Len(objs) = 3
    /\ Len(calls) = 3
    /\ calls[1].obj = objs[3].ptr
    /\ calls[2].obj = objs[1].ptr
    /\ calls[3] = [fn |-> allocator_deallocate, obj |-> mem]

\* C14: an arena constructed over a caller's buffer of S bytes, with S passed
\* as its size, has capacity() = S and places no header or payload byte at
\* or beyond buffer + S.
C14_BorrowedStaysInBuffer ==
    ctor.kind = "borrowed"
    => /\ capacity = ctor.bytes
       /\ \A i \in DOMAIN objs :
             objs[i].state # "Reclaimed" => EndOf(objs[i]) <= mem + ctor.bytes

\* C15, as claimed: an arena constructed with capacity C has capacity() = C.
C15_CapacityIsRequested ==
    ctor.kind = "owned" => capacity = ctor.bytes

\* C15, amended: an arena constructed with capacity C has, after construction
\* and after every later operation, capacity() = C rounded up to the next
\* multiple of sizeof(max_align_t): C itself when C is such a multiple, and
\* otherwise more than C by less than sizeof(max_align_t).
C15_CapacityIsRoundedUp ==
    ctor.kind = "owned"
    => /\ capacity % SizeofMaxAlignT = 0
       /\ capacity >= ctor.bytes
       /\ capacity - ctor.bytes < SizeofMaxAlignT
       /\ (ctor.bytes % SizeofMaxAlignT = 0) => capacity = ctor.bytes
       /\ end_of_mem = mem + capacity

\* an arena whose requested capacity was no multiple of sizeof(max_align_t)
\* has been allocated on and emptied by dealloc_all
C15_Witness ==
    /\ ctor.kind = "owned" /\ ctor.bytes % SizeofMaxAlignT # 0
    /\ last.op = "dealloc_all" /\ Len(objs) >= 2
    /\ capacity > ctor.bytes

\* the payload sizes of the chunks os, summed
RECURSIVE SumSizes(_)
SumSizes(os) ==
    IF os = << >> THEN 0 ELSE Head(os).size + SumSizes(Tail(os))

\* C16: with n chunks of payload sizes s_1 .. s_n on the arena, size() is at
\* most s_1 + ... + s_n + max_overhead(n); and an allocation is not rejected
\* when the capacity is at least the payload sizes of the chunks on the arena
\* and of the new one plus max_overhead of their number, as it is throughout
\* n allocations on an arena constructed with s_1 + ... + s_n + max_overhead(n).
C16_MaxOverheadSuffices ==
    [][ LET on == OnArena(objs)
            on2 == OnArena(objs')
        IN  /\ size(ArenaNext) <= SumSizes(on2) + max_overhead(Len(on2))
            /\ (IsAllocOp(last')
                /\ SumSizes(on) + TypeOf(last'.type).size * last'.n
                      + max_overhead(Len(on) + 1) <= capacity)
                  => /\ last'.ret # NULL
                     /\ Len(on2) = Len(on) + 1 ]_vars

\* the second of two allocations succeeded, after padding, on an arena whose
\* capacity covers their payload sizes plus max_overhead(2)
C16_Witness ==
    /\ IsAllocOp(last) /\ last.ret # NULL
    /\ ctor.kind = "owned"
    /\ Len(objs) = 2
    /\ \A i \in DOMAIN objs : objs[i].state = "Allocated"
    /\ SumSizes(objs) + max_overhead(2) <= capacity
    /\ Padding(objs[2]) > 0

\* C17: alloc_array<T>(n) returns a pointer only if padding + header_stride
\* + n * sizeof(T) bytes lie between tos and the end of the buffer, for every
\* n of size_type; otherwise it returns null and changes nothing.
C17_ArrayFitsForEveryCount ==
    [][ last'.op = "alloc_array"
        => /\ last'.ret # NULL
                 => tos + Need(tos, TypeOf(last'.type), last'.n) <= end_of_mem
           /\ last'.ret = NULL
                 => /\ tos' = tos /\ top_chunk' = top_chunk /\ heads' = heads ]_vars

\* C18, as claimed: is_top(p) holds exactly for the pointer of the most recent
\* successful allocation while no allocation and no pop of the top has
\* happened since: after a successful allocation it holds for the new pointer
\* only, after a pop of the top object for no pointer, and an interior
\* dealloc or a failed allocation leaves it as it was.
C18_TopIsMostRecentAllocation ==
    [][ /\ (IsAllocOp(last') /\ last'.ret # NULL)
              => \A i \in DOMAIN objs' :
                    is_top(ArenaNext, objs'[i].ptr) <=> objs'[i].ptr = last'.ret
        /\ (last'.op = "dealloc" /\ last'.arg # NULL /\ is_top(Arena, last'.arg))
              => \A i \in DOMAIN objs' : ~is_top(ArenaNext, objs'[i].ptr)
        /\ ((last'.op = "dealloc" /\ ~is_top(Arena, last'.arg))
               \/ (IsAllocOp(last') /\ last'.ret = NULL))
              => \A i \in DOMAIN objs' :
                    is_top(ArenaNext, objs'[i].ptr) <=> is_top(Arena, objs'[i].ptr)
      ]_vars

\* C18, amended: is_top(p) holds exactly for the pointer of the top chunk,
\* the latest allocated of the chunks that are still on the arena, which is
\* a live object: for the new pointer alone after a successful allocation,
\* and after a pop for the latest chunk that the pop left on the arena.
C18_TopIsLatestOnArena ==
    LET on == OnArena(objs)
    IN  /\ \A i \in DOMAIN objs :
              is_top(Arena, objs[i].ptr)
                 <=> (on # << >> /\ objs[i] = on[Len(on)])
        /\ on # << >> => on[Len(on)].state = "Allocated"
        /\ on = << >> <=> top_chunk = NULL
        /\ (IsAllocOp(last) /\ last.ret # NULL)
              => /\ is_top(Arena, last.ret)
                 /\ \A i \in DOMAIN objs :
                       objs[i].ptr # last.ret => ~is_top(Arena, objs[i].ptr)

\* the top object was popped and the chunk below it is top now
C18_Witness ==
    /\ last.op = "dealloc" /\ Len(objs) >= 2
    /\ objs[Len(objs)].ptr = last.arg
    /\ objs[Len(objs)].state = "Reclaimed"
    /\ \E i \in DOMAIN objs :
          objs[i].state = "Allocated" /\ is_top(Arena, objs[i].ptr)

\* C19, as claimed: is_valid(p) holds for a returned pointer p as long as its
\* chunk is on the arena.
C19_ValidWhileOnArena ==
    \A i \in DOMAIN objs :
       objs[i].state # "Reclaimed" => is_valid(Arena, objs[i].ptr)

\* C19, amended: is_valid(p) holds for a returned pointer p as long as its
\* object is live; once the object has been deallocated while it was not top,
\* the header keeps the checksum of the destructor it no longer holds and
\* is_valid(p) is false for as long as the chunk stays on the arena.
C19_ValidWhileLive ==
    \A i \in DOMAIN objs :
       /\ objs[i].state = "Allocated" => is_valid(Arena, objs[i].ptr)
       /\ objs[i].state = "Destructed"
             => /\ ~is_valid(Arena, objs[i].ptr)
                /\ heads[objs[i].hdr].dtor = free_marker_dtor_xor
                /\ heads[objs[i].hdr].checksum
                      = make_checksum(heads[objs[i].hdr].prev, xor_fptr(objs[i].fn))

\* a live chunk lies above an interior-destructed chunk
C19_Witness ==
    /\ Len(objs) >= 2 /\ ~destroyed
    /\ objs[1].state = "Destructed" /\ ~is_valid(Arena, objs[1].ptr)
    /\ objs[Len(objs)].state = "Allocated" /\ is_valid(Arena, objs[Len(objs)].ptr)

\* pointers is_valid is asked about: the returned ones, and pointers at and
\* around the two ends of the buffer
Probes ==
    { objs[i].ptr : i \in DOMAIN objs }
       \cup { mem + MAX_ALIGN, mem + HeaderStride,
              end_of_mem - AlignofChunkHeader, end_of_mem,
              end_of_mem + HeaderStride, end_of_mem + HeaderStride + AlignofChunkHeader }

\* C20: is_valid(p) holds exactly if p lies in [buffer, buffer + C) and the
\* header header_stride bytes before p has a matching checksum; for a p
\* outside that range it is false and no byte outside the buffer is read.
C20_ValidIffInRangeAndChecksum ==
    \A p \in Probes :
       LET chead   == to_chunk_header(p)
           inrange == p >= mem /\ p < mem + capacity
       IN  /\ ~inrange
                => /\ is_valid_outcomes(Arena, p) = {FALSE}
                   /\ header_reads(chead) \subseteq (mem .. (end_of_mem - 1))
           /\ (inrange /\ chead \in DOMAIN heads)
                => is_valid_outcomes(Arena, p)
                      = { checksum_ok(heads[chead].prev, heads[chead].dtor,
                                      heads[chead].checksum) }

\* C21: a dealloc_all that follows a dealloc_all, and a dealloc_all on an
\* empty arena, calls no destructor and leaves tos, top_chunk and the chunk
\* headers as they are.
C21_DeallocAllIdempotent ==
    [][ (last'.op = "dealloc_all" /\ (last.op = "dealloc_all" \/ top_chunk = NULL))
        => /\ calls' = << >>
           /\ tos' = tos /\ top_chunk' = top_chunk /\ heads' = heads
           /\ tos' = mem /\ top_chunk' = NULL
           /\ crashed' = crashed /\ constructed' = << >>
           /\ objs' = << >> ]_vars

\* dealloc_all has run on an arena that was empty, after construction or
\* after an earlier dealloc_all: nothing was called, nothing is left
C21_Witness ==
    /\ last.op = "dealloc_all"
    /\ objs = << >> /\ calls = << >>
    /\ tos = mem /\ top_chunk = NULL /\ heads = Empty

\* the least number of bytes that brings address t to a multiple of a
PadTo(t, a) == CHOOSE k \in 0 .. (a - 1) : (t + k) % a = 0

\* the greater of alignof(T) and alignof(chunk_header)
EffectiveAlign(T) ==
    IF T.align > AlignofChunkHeader THEN T.align ELSE AlignofChunkHeader

\* C22: a successful alloc<T> advances tos by the padding that aligns tos to
\* the effective alignment of T, plus header_stride, plus sizeof(T); the new
\* header lies behind the padding, its prev is the former top_chunk, it is
\* the new top_chunk; the object is constructed at header + header_stride,
\* which is the pointer returned, and is_top of it holds; the headers below
\* are unchanged.
C22_AllocEffect ==
    [][ (last'.op = "alloc" /\ last'.ret # NULL)
        => LET T   == TypeOf(last'.type)
               pad == PadTo(tos, EffectiveAlign(T))
           IN  /\ tos' = tos + pad + HeaderStride + T.size
               /\ top_chunk' = tos + pad
               /\ DOMAIN heads' = DOMAIN heads \cup {top_chunk'}
               /\ \A a \in DOMAIN heads : heads'[a] = heads[a]
               /\ heads'[top_chunk'].prev = top_chunk
               /\ heads'[top_chunk'].dtor = xor_fptr(call_dtor(T))
               /\ last'.ret = top_chunk' + HeaderStride
               /\ is_top(ArenaNext, last'.ret)
               /\ constructed' = << [type |-> T.name, obj |-> last'.ret] >>
               /\ calls' = << >> ]_vars

\* a long double was allocated above another chunk, behind padding
C22_Witness ==
    /\ last.op = "alloc" /\ last.ret # NULL /\ last.type = "long double"
    /\ Len(objs) >= 2
    /\ heads[top_chunk].prev = objs[Len(objs) - 1].hdr
    /\ top_chunk > objs[Len(objs)].before
    /\ constructed = << [type |-> "long double", obj |-> last.ret] >>


\* C23: alloc<T>(a1..ak) reaches the constructor of T whose parameters have
\* exactly the const-ness of the arguments: with one to three arguments, in
\* every combination of const and non-const lvalues, the alloc overload, the
\* push overload and the constructor selected all have the parameter list
\* that equals the argument list; with four to ten arguments the all-const
\* overloads are selected, and every such call is well-formed.
C23_ForwardsConstness ==
    /\ fwd.args # << >> =>
          LET k == Len(fwd.args)
              e == IF k <= 3 THEN fwd.args ELSE AllConst(k)
          IN  fwd.alloc = e /\ fwd.push = e /\ fwd.ctor = e
    /\ \A q \in ArgLists : forward(q).ctor # << >>
    /\ \A k \in 4 .. 10 :
          \A q \in { AllConst(k), [i \in 1 .. k |-> "n"] } :
              /\ resolve_template(alloc_overloads, q) = { AllConst(k) }
              /\ resolve_template(push_overloads, AllConst(k)) = { AllConst(k) }

\* a chunk was constructed from a mixed argument list of three lvalues, and
\* one from ten non-const lvalues
C23_Witness ==
    /\ last.op = "alloc" /\ last.ret # NULL
    /\ fwd.args = << "n", "c", "n" >>
    /\ \E o \in DOMAIN objs : objs[o].type = "CtorManiac" /\ objs[o].ptr # last.ret


\* C24: construction is rejected when the requested capacity is 0, when the
\* raw allocator returns null, or when a borrowed buffer is null or has size
\* 0: an object constructed so holds no chunk header, and no alloc on it has
\* returned a non-null pointer.
C24_RejectedNeverAllocates ==
    (ctor.bytes = 0 \/ mem = NULL) =>
        /\ DOMAIN heads = {}
        /\ IsAllocOp(last) => last.ret = NULL


\* the last operation pops: a dealloc of the top object, dealloc_all, or the
\* arena's destruction
PopStep ==
    \/ last'.op \in {"dealloc_all", "destroy"}
    \/ last'.op = "dealloc" /\ last'.arg # NULL /\ is_top(Arena, last'.arg)

\* the last operation is an interior destruct: a dealloc of an object that is
\* not the top object
InteriorStep ==
    last'.op = "dealloc" /\ last'.arg # NULL /\ ~is_top(Arena, last'.arg)

\* C25: in a dealloc of the top object and in every pop of dealloc_all (and
\* of the arena's destruction), at the moment the destructor is called the
\* scan has already rewound tos to the chunk's header or below it, the chunk
\* is not reachable from top_chunk, and its header, where it is still kept,
\* is marked free.
C25_PopDestroysAfterRewind ==
    [][PopStep =>
          \A k \in DOMAIN at' :
             LET s     == at'[k]
                 chead == to_chunk_header(s.obj)
             IN  /\ s.tos <= chead
                 /\ s.top_chunk = NULL \/ s.top_chunk < chead
                 /\ chead \notin ChainFrom(s.heads, s.top_chunk)
                 /\ chead \in DOMAIN s.heads
                       => s.heads[chead].dtor = free_marker_dtor_xor]_vars

\* a dealloc popped the top object above another chunk
PoppedByDealloc ==
    /\ last.op = "dealloc"
    /\ Len(at) = 1
    /\ at[1].top_chunk # NULL /\ at[1].tos = to_chunk_header(last.arg)
    /\ tos = at[1].tos

\* dealloc_all popped two objects: the first destructor ran while the other
\* chunk was still on the arena, the second on the empty arena
C25_Witness ==
    /\ last.op = "dealloc_all"
    /\ Len(at) = 2
    /\ at[1].top_chunk # NULL /\ at[1].tos = to_chunk_header(at[1].obj)
    /\ at[2].top_chunk = NULL /\ at[2].tos = mem

\* C26 as stated: in an interior destruct the destructor is called first and
\* the header is overwritten afterwards, so at the moment of the call the
\* header still holds the obfuscated destructor it held before the dealloc.
C26_DestructorBeforeMark ==
    [][(InteriorStep /\ at' # << >>) =>
          LET s     == at'[1]
              chead == to_chunk_header(s.obj)
          IN  /\ chead \in DOMAIN s.heads
              /\ s.heads[chead].dtor = heads[chead].dtor
              /\ heads'[chead].dtor = free_marker_dtor_xor]_vars

\* C26 amended: in an interior destruct the header's dtor is overwritten with
\* the free marker first and the decoded destructor is called afterwards, so
\* at the moment of the call the header already holds the free marker; the
\* function called is the one decoded from the header as it was before, and
\* tos and top_chunk are as before the dealloc.
C26_MarkBeforeDestructor ==
    [][(InteriorStep /\ at' # << >>) =>
          LET s     == at'[1]
              chead == to_chunk_header(s.obj)
          IN  /\ Len(at') = 1
              /\ chead \in DOMAIN s.heads
              /\ s.heads[chead].dtor = free_marker_dtor_xor
              /\ heads'[chead].dtor = free_marker_dtor_xor
              /\ calls'[1] = [fn |-> xor_fptr(heads[chead].dtor), obj |-> last'.arg]
              /\ s.tos = tos /\ s.top_chunk = top_chunk]_vars

\* a dealloc destructed an object below the top chunk, which stays on the
\* arena with its header marked
C26_Witness ==
    /\ last.op = "dealloc"
    /\ Len(at) = 1
    /\ at[1].obj = last.arg
    /\ at[1].top_chunk # NULL /\ to_chunk_header(last.arg) < at[1].top_chunk
    /\ to_chunk_header(last.arg) \in DOMAIN heads
    /\ heads[to_chunk_header(last.arg)].dtor = free_marker_dtor_xor
    /\ tos = at[1].tos


\* C27: in every reachable state the headers reachable from top_chunk through
\* prev form a list that ends at null with strictly decreasing addresses
\* (each prev is null or below its header, the lowest header's prev is null),
\* and the list holds exactly the headers of the chunks that were allocated
\* and that tos has not been rewound over, each once.
C27_PrevListIsUnreclaimed ==
    LET chain == ChainFrom(heads, top_chunk)
        kept  == { i \in DOMAIN objs : objs[i].hdr < tos }
    IN  /\ top_chunk # NULL => top_chunk \in DOMAIN heads
        /\ \A c \in chain :
              /\ heads[c].prev = NULL \/ heads[c].prev < c
              /\ heads[c].prev # NULL => heads[c].prev \in chain
              /\ mem <= c /\ c < tos
        /\ chain = { objs[i].hdr : i \in kept }
        /\ Cardinality(chain) = Cardinality(kept)
        /\ \A i, j \in kept : i < j => objs[i].hdr < objs[j].hdr

\* three chunks were allocated, the middle one was destructed in place and
\* the list still links all three
C27_Witness ==
    /\ Len(objs) = 3
    /\ last.op = "dealloc" /\ last.arg = objs[2].ptr
    /\ heads[objs[2].hdr].dtor = free_marker_dtor_xor
    /\ top_chunk = objs[3].hdr
    /\ heads[objs[3].hdr].prev = objs[2].hdr
    /\ heads[objs[2].hdr].prev = objs[1].hdr
    /\ heads[objs[1].hdr].prev = NULL


\* C28: in every reachable state 0 <= size() <= capacity(); the header and the
\* payload of every chunk reachable from top_chunk lie in the buffer below
\* tos, the payload right behind the header stride; and no header is stored,
\* and no chunk on the arena has a byte, at tos or above.
C28_ChunksBelowTos ==
    /\ 0 <= size(Arena) /\ size(Arena) <= capacity
    /\ \A i \in DOMAIN objs :
          objs[i].hdr \in ChainFrom(heads, top_chunk) =>
              /\ mem <= objs[i].hdr
              /\ objs[i].ptr = objs[i].hdr + HeaderStride
              /\ objs[i].ptr + objs[i].size <= tos
    /\ \A h \in DOMAIN heads : h + HeaderStride <= tos
    /\ \A h \in ChainFrom(heads, top_chunk) :
          \E i \in DOMAIN objs : objs[i].hdr = h

\* the arena is filled up to its last bytes: no further char fits, and a
\* chunk ends above the capacity less the overhead of one object
C28_Witness ==
    /\ Len(objs) >= 2
    /\ ~mem_available(Arena, CHOOSE T \in Types : T.size = 1)
    /\ size(Arena) + max_overhead(1) > capacity
    /\ objs[Len(objs)].ptr + objs[Len(objs)].size = tos
    /\ last.op = "alloc" /\ last.ret = NULL


\* C29 as stated: the payload address of every chunk is a multiple of
\* MAX_ALIGN.
C29_PayloadMaxAligned ==
    \A i \in DOMAIN objs : objs[i].ptr % MAX_ALIGN = 0

\* C29 amended: because the stored header size is rounded up to MAX_ALIGN,
\* the payload of every chunk is at a multiple of MAX_ALIGN whenever its
\* header is, which is the case for every type whose alignment is MAX_ALIGN;
\* the payloads whose headers are not are at the odd multiples of
\* alignof(chunk_header).
C29_PayloadAlignedAsHeader ==
    \A i \in DOMAIN objs :
       /\ objs[i].ptr % MAX_ALIGN = objs[i].hdr % MAX_ALIGN
       /\ objs[i].align = MAX_ALIGN => objs[i].ptr % MAX_ALIGN = 0
       /\ objs[i].ptr % MAX_ALIGN \in { 0, AlignofChunkHeader }

\* a payload that is not at a multiple of MAX_ALIGN, above one that is
C29_Witness ==
    /\ Len(objs) >= 2
    /\ last.op = "alloc" /\ last.ret = objs[Len(objs)].ptr
    /\ last.ret % MAX_ALIGN = AlignofChunkHeader
    /\ objs[1].ptr % MAX_ALIGN = 0


\* the header below chunk i of objs at the time chunk i was allocated
PrevAtAlloc(i) == IF i = 1 THEN NULL ELSE objs[i - 1].hdr

\* C30: in every reachable state every chunk reachable from top_chunk whose
\* header is not marked free holds its obfuscated destructor and has
\* checksum = prev XOR dtor XOR checksum_cookie; a chunk whose header is
\* marked free holds the obfuscated free marker, and prev and checksum are
\* still the ones written when it was allocated, the checksum being that of
\* the destructor the header held then.
C30_HeaderFields ==
    \A i \in DOMAIN objs :
       objs[i].hdr \in ChainFrom(heads, top_chunk) =>
          LET h == heads[objs[i].hdr]
          IN  /\ h.prev = PrevAtAlloc(i)
              /\ h.checksum = Xor(Xor(PrevAtAlloc(i), Xor(objs[i].fn, xor_cookie)),
                                  checksum_cookie)
              /\ IF objs[i].dtors = 0
                 THEN /\ h.dtor = Xor(objs[i].fn, xor_cookie)
                      /\ h.checksum = Xor(Xor(h.prev, h.dtor), checksum_cookie)
                 ELSE h.dtor = Xor(free_marker_dtor, xor_cookie)

\* a destructed chunk lies between two live chunks
C30_Witness ==
    /\ Len(objs) = 3
    /\ { objs[i].hdr : i \in 1 .. 3 } = ChainFrom(heads, top_chunk)
    /\ objs[1].dtors = 0 /\ objs[2].dtors = 1 /\ objs[3].dtors = 0
    /\ heads[objs[2].hdr].dtor = free_marker_dtor_xor
    /\ heads[objs[3].hdr].prev = objs[2].hdr


\* the destructor function an allocating operation registers for its chunk
Registered(l) ==
    IF l.op = "alloc_array" THEN array_of_primitives_dtor
    ELSE call_dtor(TypeOf(l.type))

\* C31: xor_ptr is an involution on every pointer value, and so the function
\* a dealloc, a dealloc_all or the arena's destruction calls for a chunk is
\* the one registered at its allocation: the header of a chunk just allocated
\* decodes to call_dtor<T> after alloc<T> and to the array-of-primitives
\* function after alloc_array<T>, and every destructor call of an operation
\* goes to a chunk with the function registered for it.
C31_DecodedIsRegistered ==
    /\ last.op = "construct"
          => \A p \in 0 .. (WordSize - 1) : xor_ptr(xor_ptr(p)) = p
    /\ (IsAllocOp(last) /\ last.ret # NULL)
          => /\ xor_ptr(heads[top_chunk].dtor) = Registered(last)
             /\ objs[Len(objs)].fn = Registered(last)
    /\ \A k \in DOMAIN DtorCalls(calls) :
          \E i \in DOMAIN objs :
             /\ objs[i].ptr = DtorCalls(calls)[k].obj
             /\ objs[i].fn = DtorCalls(calls)[k].fn
             /\ objs[i].fn \in { array_of_primitives_dtor,
                                 call_dtor(TypeOf(objs[i].type)) }

\* dealloc_all called the array-of-primitives function for an array and
\* call_dtor<T> for an object
C31_Witness ==
    /\ last.op = "dealloc_all"
    /\ Len(DtorCalls(calls)) = 2
    /\ \E j, k \in 1 .. 2 :
          /\ calls[j].fn = array_of_primitives_dtor
          /\ calls[k].fn \in { call_dtor(T) : T \in Types }


\* the chunks of objs whose destructor has not been called
LiveIdx == { i \in DOMAIN objs : objs[i].dtors = 0 }

\* C32: between operations top_chunk is null or points to a header that does
\* not hold the free marker; it is the header of the latest allocated chunk
\* that has not been deallocated, and it is null exactly when there is no
\* such chunk.
C32_TopChunkIsLatestLive ==
    /\ top_chunk # NULL
          => /\ top_chunk \in DOMAIN heads
             /\ heads[top_chunk].dtor # free_marker_dtor_xor
    /\ top_chunk = NULL <=> LiveIdx = {}
    /\ LiveIdx # {}
          => top_chunk = objs[CHOOSE i \in LiveIdx : \A j \in LiveIdx : j <= i].hdr

\* a pop went past an interior-destructed chunk down to a live one
C32_Witness ==
    /\ last.op = "dealloc"
    /\ Len(objs) = 3
    /\ objs[1].dtors = 0 /\ objs[2].dtors = 1 /\ objs[3].dtors = 1
    /\ last.arg = objs[3].ptr
    /\ top_chunk = objs[1].hdr


\* one past the payload of the chunk whose header is top_chunk
TopPayloadEnd ==
    LET i == CHOOSE i \in DOMAIN objs : objs[i].hdr = top_chunk
    IN  top_object(Arena) + objs[i].size

\* C33: between operations, if top_chunk is null then size() = 0; otherwise
\* tos is at or after the end of the payload of top_chunk's chunk and exceeds
\* it by less than MAX_ALIGN bytes.
C33_TosNearTopPayload ==
    IF top_chunk = NULL
    THEN size(Arena) = 0
    ELSE /\ \E i \in DOMAIN objs : objs[i].hdr = top_chunk
         /\ TopPayloadEnd <= tos
         /\ tos - TopPayloadEnd < MAX_ALIGN

\* a pop left tos at the popped header, above the end of the payload of the
\* chunk below it
C33_Witness ==
    /\ last.op = "dealloc"
    /\ top_chunk # NULL
    /\ Len(objs) >= 2
    /\ objs[Len(objs)].ptr = last.arg
    /\ tos = objs[Len(objs)].hdr
    /\ tos > TopPayloadEnd


\* the state of the chunk with header hdr on an arena with top of stack t and
\* headers h
ChunkState(hdr, t, h) ==
    IF hdr >= t \/ hdr \notin DOMAIN h THEN "Reclaimed"
    ELSE IF h[hdr].dtor = free_marker_dtor_xor THEN "Destructed" ELSE "Allocated"

\* C34: in every operation every chunk that is on the arena keeps its state
\* or moves Allocated -> Reclaimed (by a dealloc of it while it is top, by
\* dealloc_all or by the arena's destruction), Allocated -> Destructed (by a
\* dealloc of it while it is not top) or Destructed -> Reclaimed; a
\* Destructed chunk is reclaimed by exactly the operation after which no
\* chunk allocated after it is Allocated; and the chunk's destructor is
\* called in an operation exactly when the chunk leaves Allocated in it.
C34_ChunkLifecycle ==
    [][\A i \in DOMAIN objs :
          objs[i].hdr < tos =>
             LET o  == objs[i]
                 n  == objs'[i]
                 s  == ChunkState(o.hdr, tos, heads)
                 t  == ChunkState(o.hdr, tos', heads')
                 above == { j \in DOMAIN objs : j > i /\ objs[j].hdr < tos }
             IN  /\ n.hdr = o.hdr /\ n.ptr = o.ptr
                 /\ s # "Reclaimed"
                 /\ << s, t >> \in { << "Allocated", "Allocated" >>,
                                     << "Allocated", "Destructed" >>,
                                     << "Allocated", "Reclaimed" >>,
                                     << "Destructed", "Destructed" >>,
                                     << "Destructed", "Reclaimed" >> }
                 /\ (s = "Allocated" /\ t = "Destructed")
                       => /\ last'.op = "dealloc" /\ last'.arg = o.ptr
                          /\ ~is_top(Arena, o.ptr)
                 /\ (s = "Allocated" /\ t = "Reclaimed")
                       => \/ last'.op = "dealloc" /\ last'.arg = o.ptr
                                                  /\ is_top(Arena, o.ptr)
                          \/ last'.op \in { "dealloc_all", "destroy" }
                 /\ s = "Destructed"
                       => /\ above # {}
                          /\ t = "Reclaimed" <=>
                                \A j \in above :
                                   ChunkState(objs[j].hdr, tos', heads') # "Allocated"
                 /\ n.dtors - o.dtors
                       = (IF s = "Allocated" /\ t # "Allocated" THEN 1 ELSE 0)
                 /\ CountCalls(calls', o.fn, o.ptr) = n.dtors - o.dtors]_vars

\* a chunk destructed in place earlier was reclaimed by the dealloc of the
\* chunk above it, while the chunk below both stays allocated
C34_Witness ==
    /\ last.op = "dealloc"
    /\ Len(objs) = 3
    /\ last.arg = objs[3].ptr
    /\ ChunkState(objs[1].hdr, tos, heads) = "Allocated"
    /\ ChunkState(objs[2].hdr, tos, heads) = "Reclaimed"
    /\ ChunkState(objs[3].hdr, tos, heads) = "Reclaimed"
    /\ objs[2].dtors = 1 /\ objs[3].dtors = 1
    /\ Len(DtorCalls(calls)) = 1


\* C35: when dealloc is given a pointer whose chunk header does not verify
\* (the pointer of an object destructed in place and not yet reclaimed), the
\* arena refuses to act: it calls no function, tos, top_chunk and all headers
\* stay as they were, and execution continues.
C35_InvalidHeaderRefused ==
    [][(last'.op = "dealloc" /\ last'.arg # NULL
           /\ ~is_valid(Arena, last'.arg))
          => /\ calls' = << >>
             /\ tos' = tos /\ top_chunk' = top_chunk /\ heads' = heads
             /\ ~crashed']_vars


\* C36: when T's constructor throws inside alloc<T>, alloc returns nothing
\* and the chunk stays committed: tos is advanced by padding, header stride
\* and sizeof(T), top_chunk is the new header, linked to the former top, and
\* the header holds T's obfuscated destructor; and a later dealloc_all or
\* destruction of the arena calls that destructor on the payload whose
\* construction did not complete.
C36_ThrowLeavesChunk ==
    [][/\ last'.op = "alloc_throw"
          => LET T     == TypeOf(last'.type)
                 chead == tos + PadTo(tos, EffectiveAlign(T))
             IN  /\ last'.ret = NULL
                 /\ tos' = chead + HeaderStride + T.size
                 /\ top_chunk' = chead
                 /\ heads' = [a \in DOMAIN heads \cup {chead} |->
                                 IF a = chead
                                 THEN [prev |-> top_chunk,
                                       dtor |-> Xor(call_dtor(T), xor_cookie),
                                       checksum |-> Xor(Xor(top_chunk,
                                                            Xor(call_dtor(T), xor_cookie)),
                                                        checksum_cookie)]
                                 ELSE heads[a]]
                 /\ calls' = << >> /\ ~crashed'
       /\ last'.op \in { "dealloc_all", "destroy" }
          => \A i \in DOMAIN objs :
                (~objs[i].built /\ objs[i].hdr < tos)
                   => /\ heads[objs[i].hdr].dtor = Xor(objs[i].fn, xor_cookie)
                      /\ CountCalls(calls', call_dtor(TypeOf(objs[i].type)),
                                    objs[i].hdr + HeaderStride) = 1]_vars

\* the arena was destroyed with a chunk whose constructor had thrown between
\* two constructed objects
C36_Witness ==
    /\ last.op = "destroy"
    /\ Len(objs) = 3
    /\ objs[1].built /\ ~objs[2].built /\ objs[3].built
    /\ objs[2].dtors = 1
    /\ Len(DtorCalls(calls)) = 3


\* the structural invariants of an arena with top of stack t, top chunk c
\* and headers h: the prev chain from c goes strictly down inside the buffer
\* below t, c is null or its header is not marked free, and t is in the
\* buffer
Structural(t, c, h) ==
    /\ mem <= t /\ t <= end_of_mem
    /\ c # NULL => c \in DOMAIN h /\ h[c].dtor # free_marker_dtor_xor
    /\ \A x \in ChainFrom(h, c) :
          /\ mem <= x /\ x + HeaderStride <= t
          /\ h[x].prev = NULL \/ (h[x].prev < x /\ h[x].prev \in DOMAIN h)

\* C37: when the destructor of an object, run by dealloc or dealloc_all,
\* calls alloc, dealloc of another live object or dealloc_all on the same
\* arena, the arena at the moment of every destructor call, and the arena
\* after the operation, satisfy the structural invariants; no destructor is
\* called twice for an object; and a dealloc_all ends with size() = 0 and
\* top_chunk null.
C37_ReentrantDestructors ==
    /\ Structural(tos, top_chunk, heads)
    /\ \A k \in DOMAIN at : Structural(at[k].tos, at[k].top_chunk, at[k].heads)
    /\ \A j, k \in DOMAIN calls : calls[j] = calls[k] => j = k
    /\ \A i \in DOMAIN objs : objs[i].dtors <= 1
    /\ \A k \in DOMAIN DtorCalls(calls) :
          \E i \in DOMAIN objs :
             /\ objs[i].ptr = DtorCalls(calls)[k].obj
             /\ objs[i].fn = DtorCalls(calls)[k].fn
             /\ objs[i].dtors = 1
    /\ last.op = "dealloc_all" => size(Arena) = 0 /\ top_chunk = NULL
    /\ ~crashed

\* a dealloc ran a destructor that deallocated other objects: another live
\* object, or all of them
ReenteredByDealloc ==
    /\ last.op = "dealloc"
    /\ Len(calls) = 2 /\ calls[1].obj = last.arg
    /\ top_chunk # NULL

ReenteredByDeallocAll ==
    /\ last.op = "dealloc"
    /\ Len(calls) = 3 /\ calls[1].obj = last.arg
    /\ top_chunk = NULL /\ at[1].top_chunk # NULL

\* dealloc_all ran a destructor that allocated an object, and popped that
\* object before the objects below it
C37_Witness ==
    /\ last.op = "dealloc_all"
    /\ Len(calls) = 3
    /\ calls[2].fn = call_dtor(CtorManiac)
    /\ at[2].top_chunk # NULL
    /\ at[3].top_chunk = NULL
    /\ tos = mem


\* C38: alloc_array<T>(0) returns, whenever the header fits in the buffer
\* behind the padding, a non-null pointer that differs from the pointer of
\* every other chunk on the arena, and advances tos by exactly the padding
\* plus the header stride; and a dealloc of such a pointer calls the
\* array-of-primitives function once and marks or reclaims that chunk's own
\* header like that of any other chunk.
C38_ZeroArrayConsistent ==
    [][/\ (last'.op = "alloc_array" /\ last'.n = 0)
          => LET T     == TypeOf(last'.type)
                 chead == tos + PadTo(tos, EffectiveAlign(T))
             IN  (chead + HeaderStride <= end_of_mem)
                    => /\ last'.ret # NULL
                       /\ last'.ret = chead + HeaderStride
                       /\ \A i \in DOMAIN objs :
                             objs[i].hdr < tos => objs[i].ptr # last'.ret
                       /\ tos' = chead + HeaderStride
                       /\ top_chunk' = chead
       /\ (last'.op = "dealloc" /\ last'.arg # NULL)
          => \A i \in DOMAIN objs :
                (objs[i].ptr = last'.arg /\ objs[i].n = 0 /\ objs[i].hdr < tos)
                   => /\ calls' = << [fn |-> array_of_primitives_dtor,
                                      obj |-> last'.arg] >>
                      /\ ~crashed'
                      /\ IF is_top(Arena, last'.arg)
                         THEN /\ tos' <= objs[i].hdr
                              /\ objs[i].hdr \notin DOMAIN heads'
                         ELSE heads' = [heads EXCEPT ![objs[i].hdr].dtor =
                                                         free_marker_dtor_xor]]_vars


\* C39: the cookies are initialised before any arena operation reads them and
\* do not change afterwards: no operation of the arena runs while they are
\* uninitialised, no step changes a cookie once a chunk header has been
\* written with it, and so every live chunk's header decodes, with the
\* current cookie, to the destructor registered for it.
C39_CookiesInitialisedFirst ==
    [][/\ last'.op \in { "alloc", "alloc_array", "dealloc", "dealloc_all", "destroy" }
          => ~Uninitialised
       /\ DOMAIN heads # {}
          => (xor_cookie' = xor_cookie /\ checksum_cookie' = checksum_cookie)
       /\ \A i \in DOMAIN objs' :
             (objs'[i].state = "Allocated")
                => Xor(heads'[objs'[i].hdr].dtor, xor_cookie') = objs'[i].fn]_vars


\* every one of the first n pops of dealloc_all on the arena A leaves
\* top_chunk null or below where it was
RECURSIVE PopsLower(_, _)
PopsLower(A, n) ==
    IF n # 0 /\ A.top_chunk # NULL /\ ~A.crashed
    THEN LET B == pop(A, A.top_chunk, to_object(A.top_chunk))
         IN  /\ B.top_chunk = NULL \/ B.top_chunk < A.top_chunk
             /\ B.tos < A.tos
             /\ PopsLower(B, n - 1)
    ELSE TRUE

\* C40: from every reachable state with k chunks reachable from top_chunk,
\* the loop of dealloc_all ends after at most k pops, each of which leaves
\* top_chunk lower on the prev chain, and the loop of the reclamation scan
\* that follows the marking of the top chunk ends after at most k steps; the
\* pops that dealloc_all and the destruction of the arena make are no more
\* than the chunks that were reachable.
C40_LoopsTerminate ==
    LET k == Cardinality(ChainFrom(heads, top_chunk))
    IN  /\ dealloc_all_pops(Arena, k + 1) <= k
        /\ PopsLower(Arena, k + 1)
        /\ dealloc_all_pops(Arena, k + 1) = Cardinality(LiveIdx)
        /\ top_chunk # NULL
              => LET s == scan_steps(mark_as_destructed(Arena, top_chunk).A, k + 1)
                 IN  1 <= s /\ s <= k
        /\ scan_steps(Arena, k + 1) = 0

\* three chunks are reachable, the middle one destructed in place: dealloc_all
\* needs two pops, and the scan after the top chunk is marked takes two steps
C40_Witness ==
    /\ Cardinality(ChainFrom(heads, top_chunk)) = 3
    /\ dealloc_all_pops(Arena, 4) = 2
    /\ scan_steps(mark_as_destructed(Arena, top_chunk).A, 4) = 2
    /\ ~crashed /\ ~destroyed

====
